---- MODULE Spec2Model ----
(***************************************************************************)
(* Greybus connections: the connection registry of a host device, the      *)
(* cport-id allocator, connection create/destroy, the enable / disable /   *)
(* disable_rx state machine with its cancel and flush loops, and the       *)
(* receive dispatcher greybus_data_rcvd.                                   *)
(*                                                                         *)
(* Every API call is run by a thread and is cut into steps at the points   *)
(* where the code takes a lock or calls into another layer, so that calls  *)
(* interleave as the code lets them.                                       *)
(***************************************************************************)
EXTENDS Integers, Sequences, FiniteSets, TLC

\* ------------------------------------------------------------------ bounds
NumCports == 2          \* hd->num_cports of the one host device
NumIntfs == 1           \* interfaces (each with one bundle)
MaxRemote == 1          \* remote cport ids are 0..MaxRemote
MaxOps == 2             \* operations in flight on one connection

\* --------------------------------------------------------------- constants
NULL == 0
CPORT_ID_BAD == 65535

GB_CONNECTION_STATE_DISABLED == "DISABLED"
GB_CONNECTION_STATE_ENABLED_TX == "ENABLED_TX"
GB_CONNECTION_STATE_ENABLED == "ENABLED"

\* return values of the three external layers when they fail
Errno == [hd |-> -1, svc |-> -2, control |-> -3]

\* memory holds two connection objects; kzalloc fails beyond
Conns == {1, 2}
Ids == 0..(NumCports - 1)
Intfs == 1..NumIntfs
RemoteIds == 0..MaxRemote
OpIds == 1..MaxOps
Handlers == {1, 2}

\* threads: API callers (drivers, core) and the host driver's receive path
Threads == {1, 2, 3}
RegCallers == {1, 2}
SMCallers == {1}
MxCallers == {1, 2}
Creators == {1}
Enablers == {2}
Dispatchers == {3}

VARIABLES
    conn,                   \* the connection objects (struct gb_connection)
    connections,            \* hd->connections, head first
    cport_id_map,           \* hd->cport_id_map: the ids reserved in the ida
    gb_connection_mutex,    \* holder of the global create/destroy mutex, or 0
    gb_connections_lock,    \* holder of the registry spinlock, or 0
    control,                \* intf->control->connection of each interface
    driver,                 \* which hooks hd->driver provides
    hd_enabled,             \* cport ids the transport has enabled
    svc_routes,             \* cport ids the SVC has a route for
    handles,                \* connections whose pointer a caller holds
    pc,                     \* each thread's position
    loc                     \* each thread's arguments and locals

vars == <<conn, connections, cport_id_map, gb_connection_mutex,
          gb_connections_lock, control, driver, hd_enabled, svc_routes,
          handles, pc, loc>>

\* ----------------------------------------------------------------- helpers
\* a slot of memory that holds no connection
NoConn ==
    [mem |-> "free", hd_cport_id |-> CPORT_ID_BAD, intf_cport_id |-> 0,
     intf |-> NULL, bundle |-> NULL,
     state |-> GB_CONNECTION_STATE_DISABLED, handler |-> NULL,
     operations |-> <<>>, kref |-> 0, mutex |-> 0, lock |-> 0, wq |-> FALSE]

\* no operation
NoOp == [id |-> 0, incoming |-> FALSE]

\* a thread that runs no call. Of a call it runs, log holds the calls made
\* into other layers and the diagnostics, cancelled the operations it asked
\* to cancel, state the connection->state it tested
Idle ==
    [fn |-> "", c |-> NULL, handler |-> NULL, ret |-> 0, log |-> <<>>,
     cancelled |-> <<>>, op |-> NoOp, state |-> "",
     hd_cport_id |-> 0, intf |-> NULL, bundle |-> NULL, cport_id |-> 0,
     ida_start |-> 0, ida_end |-> 0]

Min(S) == CHOOSE x \in S : \A y \in S : x <= y

Goto(t, p) == pc' = [pc EXCEPT ![t] = p]

Range(s) == {s[i] : i \in 1..Len(s)}

\* list_add(): insert right after the head
list_add(new, list) == <<new>> \o list

\* faulty variant: a list_del() that leaves the entry on the list
list_del_nothing(entry, list) == list

\* list_del()
list_del(entry, list) == SelectSeq(list, LAMBDA e : e # entry)

\* faulty variant: an allocator that forgets the ids it has handed out
ida_get_forgetful(ida, start, end) == start

\* faulty variant: an allocator that hands out the highest free id
ida_get_highest(ida, start, end) ==
    LET free == {i \in start..(end - 1) : i \notin ida}
    IN  IF free = {} THEN -1 ELSE CHOOSE x \in free : \A y \in free : y <= x

\* ida_simple_get(): the lowest free id of [start, end), or a negative errno
ida_simple_get(ida, start, end) ==
    LET free == {i \in start..(end - 1) : i \notin ida}
    IN  IF free = {} THEN -1 ELSE Min(free)

\* ida_simple_remove()
ida_simple_remove(ida, id) == ida \ {id}

\* faulty variant: no connection is taken for static
never_static(c) == FALSE

\* gb_connection_is_static()
gb_connection_is_static(c) == conn[c].intf = NULL

\* faulty variant: a lookup that never finds a connection
intf_find_nothing(intf, cport_id) == NULL

\* gb_connection_intf_find(): list_for_each_entry over hd->connections,
\* the first connection for (intf, cport_id) or NULL
gb_connection_intf_find(intf, cport_id) ==
    LET hits == {i \in 1..Len(connections) :
                    /\ conn[connections[i]].intf = intf
                    /\ conn[connections[i]].intf_cport_id = cport_id}
    IN  IF hits = {} THEN NULL ELSE connections[Min(hits)]

\* faulty variant: a walk that stops at the head of the list, whatever its id
hd_find_head(cport_id) ==
    IF connections = <<>> THEN NULL ELSE connections[1]

\* the walk of gb_connection_hd_find(): list_for_each_entry, the first
\* connection with hd_cport_id or NULL
hd_find_walk(cport_id) ==
    LET hits == {i \in 1..Len(connections) :
                    conn[connections[i]].hd_cport_id = cport_id}
    IN  IF hits = {} THEN NULL ELSE connections[Min(hits)]

\* kzalloc(): a slot that holds no live object
kzalloc_slot == Min({c \in Conns : conn[c].mem # "live"})

\* kfree()
kfree(cn, c) == [cn EXCEPT ![c] = NoConn]

\* kref_put(): drop one reference, release on the last
kref_put(cn, c) ==
    IF cn[c].kref = 1
    THEN kfree(cn, c)
    ELSE [cn EXCEPT ![c].kref = @ - 1]

\* gb_connection_get()
gb_connection_get(cn, c) == [cn EXCEPT ![c].kref = @ + 1]

\* gb_connection_put()
gb_connection_put(cn, c) == kref_put(cn, c)

\* faulty variant: a mutex_lock() that does not wait
mutex_ignored(m) == TRUE

\* ------------------------------------------------------ gb_connection_create
\* mutex_lock(): the mutex is taken when free
mutex_free(m) == m = 0

\* entry of gb_connection_create(): the id range, then
\* mutex_lock(&gb_connection_mutex); or a return before any lock is taken
gb_connection_create(t, fn, hd_cport_id, intf, bundle, cport_id) ==
    /\ pc[t] = "idle"
    /\ LET args == [Idle EXCEPT !.fn = fn, !.hd_cport_id = hd_cport_id,
                                !.intf = intf, !.bundle = bundle,
                                !.cport_id = cport_id]
       IN  IF hd_cport_id < 0
           THEN /\ loc' = [loc EXCEPT ![t] = [args EXCEPT !.ida_start = 0,
                                                  !.ida_end = NumCports]]
                /\ mutex_free(gb_connection_mutex)
                /\ gb_connection_mutex' = t
                /\ Goto(t, "create_find")
           ELSE IF hd_cport_id < NumCports
           THEN /\ loc' = [loc EXCEPT ![t] =
                               [args EXCEPT !.ida_start = hd_cport_id,
                                            !.ida_end = hd_cport_id + 1]]
                /\ mutex_free(gb_connection_mutex)
                /\ gb_connection_mutex' = t
                /\ Goto(t, "create_find")
           ELSE /\ loc' = [loc EXCEPT ![t] =
                               [args EXCEPT !.log = <<"dev_err">>,
                                            !.ret = NULL]]
                /\ UNCHANGED gb_connection_mutex
                /\ Goto(t, "create_ret")
    /\ UNCHANGED <<conn, connections, cport_id_map, gb_connections_lock,
                   control, driver, hd_enabled, svc_routes, handles>>

\* gb_connection_create_static(hd, hd_cport_id): hd_cport_id is a u16
gb_connection_create_static(t) ==
    \E hd_cport_id \in 0..NumCports :
        gb_connection_create(t, "create_static", hd_cport_id, NULL, NULL, 0)

\* gb_connection_create_control(intf)
gb_connection_create_control(t) ==
    \E intf \in Intfs :
        gb_connection_create(t, "create_control", -1, intf, NULL, 0)

\* gb_connection_create_dynamic(bundle, cport_id): bundle b is of interface b
gb_connection_create_dynamic(t) ==
    \E bundle \in Intfs, cport_id \in RemoteIds :
        gb_connection_create(t, "create_dynamic", -1, bundle, bundle, cport_id)

\* the duplicate check, then ida_simple_get()
create_find(t) ==
    /\ pc[t] = "create_find"
    /\ LET l == loc[t]
           id == ida_simple_get(cport_id_map, l.ida_start, l.ida_end)
       IN  IF l.intf # NULL
              /\ gb_connection_intf_find(l.intf, l.cport_id) # NULL
           THEN /\ loc' = [loc EXCEPT ![t].log = Append(@, "dev_err")]
                /\ Goto(t, "create_err_unlock")
                /\ UNCHANGED cport_id_map
           ELSE IF id < 0
           THEN /\ loc' = [loc EXCEPT ![t].hd_cport_id = id]
                /\ Goto(t, "create_err_unlock")
                /\ UNCHANGED cport_id_map
           ELSE /\ loc' = [loc EXCEPT ![t].hd_cport_id = id]
                /\ cport_id_map' = cport_id_map \cup {id}
                /\ Goto(t, "create_alloc")
    /\ UNCHANGED <<conn, connections, gb_connection_mutex,
                   gb_connections_lock, control, driver, hd_enabled,
                   svc_routes, handles>>

\* kzalloc() and the initialisation of the object; kzalloc may fail
create_alloc(t) ==
    /\ pc[t] = "create_alloc"
    /\ \/ /\ \E c \in Conns : conn[c].mem # "live"
          /\ LET c == kzalloc_slot
                 l == loc[t]
             IN  /\ conn' = [conn EXCEPT ![c] =
                        [NoConn EXCEPT !.mem = "live",
                                       !.hd_cport_id = l.hd_cport_id,
                                       !.intf_cport_id = l.cport_id,
                                       !.intf = l.intf,
                                       !.bundle = l.bundle,
                                       !.state = GB_CONNECTION_STATE_DISABLED]]
                 /\ loc' = [loc EXCEPT ![t].c = c]
          /\ Goto(t, "create_wq")
       \/ /\ Goto(t, "create_err_remove_ida")
          /\ UNCHANGED <<conn, loc>>
    /\ UNCHANGED <<connections, cport_id_map, gb_connection_mutex,
                   gb_connections_lock, control, driver, hd_enabled,
                   svc_routes, handles>>

\* alloc_workqueue(), then kref_init(); on failure err_free_connection
create_wq(t) ==
    /\ pc[t] = "create_wq"
    /\ LET c == loc[t].c
       IN  \/ /\ conn' = [conn EXCEPT ![c].wq = TRUE, ![c].kref = 1]
              /\ Goto(t, "create_link_lock")
              /\ UNCHANGED loc
           \/ /\ conn' = kfree(conn, c)
              /\ loc' = [loc EXCEPT ![t].c = NULL]
              /\ Goto(t, "create_err_remove_ida")
    /\ UNCHANGED <<connections, cport_id_map, gb_connection_mutex,
                   gb_connections_lock, control, driver, hd_enabled,
                   svc_routes, handles>>

\* spin_lock_irq(&gb_connections_lock)
create_link_lock(t) ==
    /\ pc[t] = "create_link_lock"
    /\ gb_connections_lock = 0
    /\ gb_connections_lock' = t
    /\ Goto(t, "create_link")
    /\ UNCHANGED <<conn, connections, cport_id_map, gb_connection_mutex,
                   control, driver, hd_enabled, svc_routes, handles, loc>>

\* faulty variant: the list insertion without the spin_unlock_irq()
create_link_keep_lock(t) ==
    /\ pc[t] = "create_link"
    /\ connections' = list_add(loc[t].c, connections)
    /\ Goto(t, "create_unlock")
    /\ UNCHANGED <<conn, cport_id_map, gb_connection_mutex,
                   gb_connections_lock, control, driver, hd_enabled,
                   svc_routes, handles, loc>>

\* list_add(&connection->hd_links, &hd->connections), spin_unlock_irq()
create_link(t) ==
    /\ pc[t] = "create_link"
    /\ connections' = list_add(loc[t].c, connections)
    /\ gb_connections_lock' = 0
    /\ Goto(t, "create_unlock")
    /\ UNCHANGED <<conn, cport_id_map, gb_connection_mutex, control, driver,
                   hd_enabled, svc_routes, handles, loc>>

\* mutex_unlock(&gb_connection_mutex); return connection. The caller takes
\* the result: gb_control_create() stores the control connection in
\* intf->control->connection
create_unlock(t) ==
    /\ pc[t] = "create_unlock"
    /\ gb_connection_mutex' = 0
    /\ LET c == loc[t].c
       IN  /\ handles' = handles \cup {c}
           /\ control' = IF loc[t].fn = "create_control"
                         THEN [control EXCEPT ![conn[c].intf] = c]
                         ELSE control
    /\ loc' = [loc EXCEPT ![t] = Idle]
    /\ Goto(t, "idle")
    /\ UNCHANGED <<conn, connections, cport_id_map, gb_connections_lock,
                   driver, hd_enabled, svc_routes>>

\* faulty variant: an error path that keeps the id reserved
create_err_leak_ida(t) ==
    /\ pc[t] = "create_err_remove_ida"
    /\ Goto(t, "create_err_unlock")
    /\ UNCHANGED <<conn, connections, cport_id_map, gb_connection_mutex,
                   gb_connections_lock, control, driver, hd_enabled,
                   svc_routes, handles, loc>>

\* err_remove_ida: ida_simple_remove(id_map, hd_cport_id)
create_err_remove_ida(t) ==
    /\ pc[t] = "create_err_remove_ida"
    /\ cport_id_map' = ida_simple_remove(cport_id_map, loc[t].hd_cport_id)
    /\ Goto(t, "create_err_unlock")
    /\ UNCHANGED <<conn, connections, gb_connection_mutex,
                   gb_connections_lock, control, driver, hd_enabled,
                   svc_routes, handles, loc>>

\* err_unlock: mutex_unlock(&gb_connection_mutex); return NULL
create_err_unlock(t) ==
    /\ pc[t] = "create_err_unlock"
    /\ gb_connection_mutex' = 0
    /\ loc' = [loc EXCEPT ![t] = Idle]
    /\ Goto(t, "idle")
    /\ UNCHANGED <<conn, connections, cport_id_map, gb_connections_lock,
                   control, driver, hd_enabled, svc_routes, handles>>

\* ----------------------------------------------------- gb_connection_destroy
\* a caller may destroy a connection it holds, once disabled and with no
\* other call running on it; it gives up its pointer with the call
CallableOn(c) ==
    /\ c \in handles
    /\ \A u \in Threads : ~(loc[u].c = c /\ loc[u].fn \notin {"", "data_rcvd"})

gb_connection_destroy(t) ==
    /\ pc[t] = "idle"
    /\ \E c \in Conns :
        /\ CallableOn(c)
        /\ conn[c].state = GB_CONNECTION_STATE_DISABLED
        /\ loc' = [loc EXCEPT ![t] = [Idle EXCEPT !.fn = "destroy", !.c = c]]
        /\ handles' = handles \ {c}
        /\ control' = [i \in Intfs |->
                          IF control[i] = c THEN NULL ELSE control[i]]
    /\ mutex_free(gb_connection_mutex)
    /\ gb_connection_mutex' = t
    /\ Goto(t, "destroy_unlink_lock")
    /\ UNCHANGED <<conn, connections, cport_id_map, gb_connections_lock,
                   driver, hd_enabled, svc_routes>>

\* gb_connection_destroy(NULL) returns at once
gb_connection_destroy_null(t) ==
    /\ pc[t] = "idle"
    /\ UNCHANGED vars

\* spin_lock_irq(&gb_connections_lock)
destroy_unlink_lock(t) ==
    /\ pc[t] = "destroy_unlink_lock"
    /\ gb_connections_lock = 0
    /\ gb_connections_lock' = t
    /\ Goto(t, "destroy_unlink")
    /\ UNCHANGED <<conn, connections, cport_id_map, gb_connection_mutex,
                   control, driver, hd_enabled, svc_routes, handles, loc>>

\* list_del(&connection->hd_links), spin_unlock_irq()
destroy_unlink(t) ==
    /\ pc[t] = "destroy_unlink"
    /\ connections' = list_del(loc[t].c, connections)
    /\ gb_connections_lock' = 0
    /\ Goto(t, "destroy_wq")
    /\ UNCHANGED <<conn, cport_id_map, gb_connection_mutex, control, driver,
                   hd_enabled, svc_routes, handles, loc>>

\* destroy_workqueue(connection->wq)
destroy_wq(t) ==
    /\ pc[t] = "destroy_wq"
    /\ conn' = [conn EXCEPT ![loc[t].c].wq = FALSE]
    /\ Goto(t, "destroy_ida")
    /\ UNCHANGED <<connections, cport_id_map, gb_connection_mutex,
                   gb_connections_lock, control, driver, hd_enabled,
                   svc_routes, handles, loc>>

\* ida_simple_remove(id_map, connection->hd_cport_id);
\* connection->hd_cport_id = CPORT_ID_BAD
destroy_ida(t) ==
    /\ pc[t] = "destroy_ida"
    /\ LET c == loc[t].c
       IN  /\ cport_id_map' = ida_simple_remove(cport_id_map,
                                                conn[c].hd_cport_id)
           /\ conn' = [conn EXCEPT ![c].hd_cport_id = CPORT_ID_BAD]
    /\ Goto(t, "destroy_unlock")
    /\ UNCHANGED <<connections, gb_connection_mutex, gb_connections_lock,
                   control, driver, hd_enabled, svc_routes, handles, loc>>

\* mutex_unlock(&gb_connection_mutex)
destroy_unlock(t) ==
    /\ pc[t] = "destroy_unlock"
    /\ gb_connection_mutex' = 0
    /\ Goto(t, "destroy_put")
    /\ UNCHANGED <<conn, connections, cport_id_map, gb_connections_lock,
                   control, driver, hd_enabled, svc_routes, handles, loc>>

\* gb_connection_put(connection), and the return
destroy_put(t) ==
    /\ pc[t] = "destroy_put"
    /\ conn' = gb_connection_put(conn, loc[t].c)
    /\ loc' = [loc EXCEPT ![t] = Idle]
    /\ Goto(t, "idle")
    /\ UNCHANGED <<connections, cport_id_map, gb_connection_mutex,
                   gb_connections_lock, control, driver, hd_enabled,
                   svc_routes, handles>>

\* the return of a call that hands nothing back to the caller
call_ret(t) ==
    /\ pc[t] \in {"create_ret", "rcvd_ret", "enable_ret", "disable_ret",
                  "disable_rx_ret"}
    /\ loc' = [loc EXCEPT ![t] = Idle]
    /\ Goto(t, "idle")
    /\ UNCHANGED <<conn, connections, cport_id_map, gb_connection_mutex,
                   gb_connections_lock, control, driver, hd_enabled,
                   svc_routes, handles>>

\* faulty variant: a receive path that waits for gb_connection_mutex
data_rcvd_serialised(t) ==
    /\ pc[t] = "idle"
    /\ mutex_free(gb_connection_mutex)
    /\ \E cport_id \in 0..NumCports :
        loc' = [loc EXCEPT ![t] = [Idle EXCEPT !.fn = "data_rcvd",
                                               !.cport_id = cport_id]]
    /\ gb_connections_lock = 0
    /\ gb_connections_lock' = t
    /\ Goto(t, "rcvd_find")
    /\ UNCHANGED <<conn, connections, cport_id_map, gb_connection_mutex,
                   control, driver, hd_enabled, svc_routes, handles>>

\* --------------------------------------------------------- greybus_data_rcvd
\* the host driver reports data received on a cport; gb_connection_hd_find()
\* starts with spin_lock_irqsave(&gb_connections_lock)
greybus_data_rcvd(t) ==
    /\ pc[t] = "idle"
    /\ \E cport_id \in 0..NumCports :
        loc' = [loc EXCEPT ![t] = [Idle EXCEPT !.fn = "data_rcvd",
                                               !.cport_id = cport_id]]
    /\ gb_connections_lock = 0
    /\ gb_connections_lock' = t
    /\ Goto(t, "rcvd_find")
    /\ UNCHANGED <<conn, connections, cport_id_map, gb_connection_mutex,
                   control, driver, hd_enabled, svc_routes, handles>>

\* faulty variant: a lookup that takes no reference
hd_find_borrow(cn, c) == cn

\* what gb_connection_hd_find() does to the object it found
hd_find_get(cn, c) == gb_connection_get(cn, c)

\* gb_connection_hd_find(): the walk, the reference, the unlock; then the
\* branch of greybus_data_rcvd() on the result: with no connection,
\* dev_err("nonexistent connection") and return
gb_connection_hd_find(t) ==
    /\ pc[t] = "rcvd_find"
    /\ LET c == hd_find_walk(loc[t].cport_id)
       IN  IF c # NULL
           THEN /\ conn' = hd_find_get(conn, c)
                /\ loc' = [loc EXCEPT ![t].c = c]
                /\ Goto(t, "rcvd_recv")
           ELSE /\ conn' = conn
                /\ loc' = [loc EXCEPT ![t].log = Append(@, "dev_err")]
                /\ Goto(t, "rcvd_ret")
    /\ gb_connections_lock' = 0
    /\ UNCHANGED <<connections, cport_id_map, gb_connection_mutex, control,
                   driver, hd_enabled, svc_routes, handles>>

\* ---------------------------------------------------------- operation layer
\* (operation.c: operations enter and leave connection->operations under
\* connection->lock; a request is admitted only while the connection is
\* ENABLED, a sent operation while it is ENABLED or ENABLED_TX)
OpIdsInUse(c) ==
    {conn[c].operations[i].id : i \in 1..Len(conn[c].operations)}
        \cup {loc[u].op.id : u \in {v \in Threads : loc[v].c = c}}

NewOp(c, incoming) ==
    [id |-> Min(OpIds \ OpIdsInUse(c)), incoming |-> incoming]

CanAddOp(c) ==
    /\ conn[c].lock = 0
    /\ Len(conn[c].operations) < MaxOps
    /\ OpIds \ OpIdsInUse(c) # {}

\* list_add_tail(&operation->links, &connection->operations)
list_add_tail(cn, c, op) == [cn EXCEPT ![c].operations = Append(@, op)]

\* the operation is taken off connection->operations, if still on it
op_remove(cn, c, op) ==
    [cn EXCEPT ![c].operations = SelectSeq(@, LAMBDA o : o.id # op.id)]

\* gb_connection_recv(): a request becomes an incoming operation, any
\* other message (a response, a short message) adds none
gb_connection_recv(t) ==
    /\ pc[t] = "rcvd_recv"
    /\ LET c == loc[t].c
       IN  /\ conn[c].lock = 0
           /\ \E request \in BOOLEAN :
                conn' = IF /\ request
                           /\ conn[c].state = GB_CONNECTION_STATE_ENABLED
                           /\ CanAddOp(c)
                        THEN list_add_tail(conn, c, NewOp(c, TRUE))
                        ELSE conn
    /\ loc' = [loc EXCEPT ![t].log = Append(@, "recv")]
    /\ Goto(t, "rcvd_put")
    /\ UNCHANGED <<connections, cport_id_map, gb_connection_mutex,
                   gb_connections_lock, control, driver, hd_enabled,
                   svc_routes, handles>>

\* gb_connection_put() at the end of greybus_data_rcvd(), and the return
data_rcvd_put(t) ==
    /\ pc[t] = "rcvd_put"
    /\ conn' = gb_connection_put(conn, loc[t].c)
    /\ loc' = [loc EXCEPT ![t] = Idle]
    /\ Goto(t, "idle")
    /\ UNCHANGED <<connections, cport_id_map, gb_connection_mutex,
                   gb_connections_lock, control, driver, hd_enabled,
                   svc_routes, handles>>

\* a request arrives on a registered connection: greybus_data_rcvd() finds
\* it and gb_connection_recv() makes it an incoming operation
request_received ==
    /\ \E c \in Range(connections) :
        /\ conn[c].state = GB_CONNECTION_STATE_ENABLED
        /\ CanAddOp(c)
        /\ conn' = list_add_tail(conn, c, NewOp(c, TRUE))
    /\ UNCHANGED <<connections, cport_id_map, gb_connection_mutex,
                   gb_connections_lock, control, driver, hd_enabled,
                   svc_routes, handles, pc, loc>>

\* gb_operation_request_send(): a driver sends a request
gb_operation_request_send ==
    /\ \E c \in handles :
        /\ conn[c].state \in {GB_CONNECTION_STATE_ENABLED,
                              GB_CONNECTION_STATE_ENABLED_TX}
        /\ CanAddOp(c)
        /\ conn' = list_add_tail(conn, c, NewOp(c, FALSE))
    /\ UNCHANGED <<connections, cport_id_map, gb_connection_mutex,
                   gb_connections_lock, control, driver, hd_enabled,
                   svc_routes, handles, pc, loc>>

\* gb_operation_put_active(): an operation completes and leaves the set
gb_operation_put_active ==
    /\ \E c \in Conns :
        /\ conn[c].lock = 0
        /\ \E i \in 1..Len(conn[c].operations) :
            conn' = op_remove(conn, c, conn[c].operations[i])
    /\ UNCHANGED <<connections, cport_id_map, gb_connection_mutex,
                   gb_connections_lock, control, driver, hd_enabled,
                   svc_routes, handles, pc, loc>>

\* ------------------------------------------------------ the external layers
\* a call into another layer is logged by its name, with _err when it fails
Log(t, e) == [loc EXCEPT ![t].log = Append(@, e)]

\* gb_connection_hd_cport_enable(): ret = hd->driver->cport_enable(), if any
gb_connection_hd_cport_enable(t, ok_pc, err_pc) ==
    LET id == conn[loc[t].c].hd_cport_id
    IN  IF ~driver.cport_enable
        THEN /\ loc' = [loc EXCEPT ![t].ret = 0]
             /\ Goto(t, ok_pc)
             /\ UNCHANGED hd_enabled
        ELSE \/ /\ hd_enabled' = hd_enabled \cup {id}
                /\ loc' = [Log(t, "cport_enable") EXCEPT ![t].ret = 0]
                /\ Goto(t, ok_pc)
             \/ /\ loc' = [Log(t, "cport_enable_err") EXCEPT
                              ![t].ret = Errno.hd]
                /\ Goto(t, err_pc)
                /\ UNCHANGED hd_enabled

\* faulty variant: the driver's cport_disable is never called
hd_cport_disable_skipped(t, next_pc) ==
    /\ UNCHANGED <<hd_enabled, loc>>
    /\ Goto(t, next_pc)

\* gb_connection_hd_cport_disable(): hd->driver->cport_disable(), if any
gb_connection_hd_cport_disable(t, next_pc) ==
    LET id == conn[loc[t].c].hd_cport_id
    IN  /\ IF ~driver.cport_disable
           THEN UNCHANGED <<hd_enabled, loc>>
           ELSE /\ hd_enabled' = hd_enabled \ {id}
                /\ loc' = Log(t, "cport_disable")
        /\ Goto(t, next_pc)

\* gb_connection_svc_connection_create(): skipped for a static connection
gb_connection_svc_connection_create(t, ok_pc, err_pc) ==
    LET c == loc[t].c
        id == conn[c].hd_cport_id
    IN  IF gb_connection_is_static(c)
        THEN /\ loc' = [loc EXCEPT ![t].ret = 0]
             /\ Goto(t, ok_pc)
             /\ UNCHANGED svc_routes
        ELSE \/ /\ svc_routes' = svc_routes \cup {id}
                /\ loc' = [Log(t, "svc_create") EXCEPT ![t].ret = 0]
                /\ Goto(t, ok_pc)
             \/ /\ loc' = [Log(t, "svc_create_err") EXCEPT
                              ![t].ret = Errno.svc]
                /\ Goto(t, err_pc)
                /\ UNCHANGED svc_routes

\* gb_connection_svc_connection_destroy(): skipped for a static connection
gb_connection_svc_connection_destroy(t, next_pc) ==
    LET c == loc[t].c
        id == conn[c].hd_cport_id
    IN  /\ IF gb_connection_is_static(c)
           THEN UNCHANGED <<svc_routes, loc>>
           ELSE /\ svc_routes' = svc_routes \ {id}
                /\ loc' = Log(t, "svc_destroy")
        /\ Goto(t, next_pc)

\* connection == connection->intf->control->connection
is_control_connection(c) == c = control[conn[c].intf]

\* gb_connection_control_connected(): skipped for a static connection and
\* for the interface's own control connection
gb_connection_control_connected(t, ok_pc, err_pc) ==
    LET c == loc[t].c
    IN  IF gb_connection_is_static(c)
        THEN /\ loc' = [loc EXCEPT ![t].ret = 0]
             /\ Goto(t, ok_pc)
        ELSE IF is_control_connection(c)
        THEN /\ loc' = [loc EXCEPT ![t].ret = 0]
             /\ Goto(t, ok_pc)
        ELSE \/ /\ loc' = [Log(t, "connected") EXCEPT ![t].ret = 0]
                /\ Goto(t, ok_pc)
             \/ /\ loc' = [Log(t, "connected_err") EXCEPT
                              ![t].ret = Errno.control]
                /\ Goto(t, err_pc)

\* gb_connection_control_disconnected(): the same skips; a failure is only
\* logged
gb_connection_control_disconnected(t, next_pc) ==
    LET c == loc[t].c
    IN  /\ IF gb_connection_is_static(c)
           THEN UNCHANGED loc
           ELSE IF is_control_connection(c)
           THEN UNCHANGED loc
           ELSE \/ loc' = Log(t, "disconnected")
                \/ loc' = [Log(t, "disconnected") EXCEPT
                              ![t].log = Append(@, "dev_warn")]
        /\ Goto(t, next_pc)

\* -------------------------------------------------- cancel and flush loops
\* faulty variant: the entry at the head of the list
list_first_entry(ops) == ops[1]

\* list_last_entry(&connection->operations)
list_last_entry(ops) == ops[Len(ops)]

\* faulty variant: a walk that stops at the first operation of either kind
first_of_any_kind(ops) == IF ops = <<>> THEN NoOp ELSE ops[1]

\* the walk of gb_connection_flush_incoming_operations: the first incoming
\* operation from the head of the list, or NoOp
first_incoming(ops) ==
    LET hit == {i \in 1..Len(ops) : ops[i].incoming}
    IN  IF hit = {} THEN NoOp ELSE ops[Min(hit)]

\* where the caller of gb_connection_cancel_operations() goes on
AfterCancel(fn) ==
    IF fn = "enable" THEN "en_err_handler" ELSE "dis_handler"

\* faulty variant: the loop body is entered with connection->lock held
cancel_check_locked(t) ==
    /\ pc[t] = "cancel_check"
    /\ LET c == loc[t].c
           ops == conn[c].operations
       IN  IF ops = <<>>
           THEN /\ Goto(t, AfterCancel(loc[t].fn))
                /\ UNCHANGED <<conn, loc>>
           ELSE /\ loc' = [loc EXCEPT ![t].op = list_last_entry(ops)]
                /\ UNCHANGED conn
                /\ Goto(t, "cancel_call")
    /\ UNCHANGED <<connections, cport_id_map, gb_connection_mutex,
                   gb_connections_lock, control, driver, hd_enabled,
                   svc_routes, handles>>

\* gb_connection_cancel_operations(), with connection->lock held: the loop
\* test, then list_last_entry, gb_operation_get and spin_unlock_irq
cancel_check(t) ==
    /\ pc[t] = "cancel_check"
    /\ LET c == loc[t].c
           ops == conn[c].operations
       IN  IF ops = <<>>
           THEN /\ Goto(t, AfterCancel(loc[t].fn))
                /\ UNCHANGED <<conn, loc>>
           ELSE /\ loc' = [loc EXCEPT ![t].op = list_last_entry(ops)]
                /\ conn' = [conn EXCEPT ![c].lock = 0]
                /\ Goto(t, "cancel_call")
    /\ UNCHANGED <<connections, cport_id_map, gb_connection_mutex,
                   gb_connections_lock, control, driver, hd_enabled,
                   svc_routes, handles>>

\* gb_operation_cancel_incoming() or gb_operation_cancel() on the operation,
\* which is off the set when the call returns; then gb_operation_put()
cancel_call(t) ==
    /\ pc[t] = "cancel_call"
    /\ LET c == loc[t].c
           op == loc[t].op
       IN  /\ conn[c].lock = 0
           /\ conn' = op_remove(conn, c, op)
           /\ loc' = [loc EXCEPT
                  ![t].log = Append(@, IF op.incoming THEN "cancel_incoming"
                                                      ELSE "cancel"),
                  ![t].cancelled = Append(@, op),
                  ![t].op = NoOp]
    /\ Goto(t, "cancel_relock")
    /\ UNCHANGED <<connections, cport_id_map, gb_connection_mutex,
                   gb_connections_lock, control, driver, hd_enabled,
                   svc_routes, handles>>

\* spin_lock_irq(&connection->lock) at the end of a loop body
loop_relock(t) ==
    /\ pc[t] \in {"cancel_relock", "flush_relock"}
    /\ conn[loc[t].c].lock = 0
    /\ conn' = [conn EXCEPT ![loc[t].c].lock = t]
    /\ Goto(t, IF pc[t] = "cancel_relock" THEN "cancel_check"
                                          ELSE "flush_check")
    /\ UNCHANGED <<connections, cport_id_map, gb_connection_mutex,
                   gb_connections_lock, control, driver, hd_enabled,
                   svc_routes, handles, loc>>

\* gb_connection_flush_incoming_operations(), with connection->lock held:
\* the loop test and the walk, then gb_operation_get and spin_unlock_irq
flush_check(t) ==
    /\ pc[t] = "flush_check"
    /\ LET c == loc[t].c
           op == first_incoming(conn[c].operations)
       IN  IF op = NoOp
           THEN /\ Goto(t, "rx_handler")
                /\ UNCHANGED <<conn, loc>>
           ELSE /\ loc' = [loc EXCEPT ![t].op = op]
                /\ conn' = [conn EXCEPT ![c].lock = 0]
                /\ Goto(t, "flush_call")
    /\ UNCHANGED <<connections, cport_id_map, gb_connection_mutex,
                   gb_connections_lock, control, driver, hd_enabled,
                   svc_routes, handles>>

\* gb_operation_cancel_incoming() on the operation, then gb_operation_put()
flush_call(t) ==
    /\ pc[t] = "flush_call"
    /\ LET c == loc[t].c
           op == loc[t].op
       IN  /\ conn[c].lock = 0
           /\ conn' = op_remove(conn, c, op)
           /\ loc' = [loc EXCEPT ![t].log = Append(@, "cancel_incoming"),
                                 ![t].cancelled = Append(@, op),
                                 ![t].op = NoOp]
    /\ Goto(t, "flush_relock")
    /\ UNCHANGED <<connections, cport_id_map, gb_connection_mutex,
                   gb_connections_lock, control, driver, hd_enabled,
                   svc_routes, handles>>

\* spin_lock_irq(&connection->lock)
spin_lock(t, from_pc, to_pc) ==
    /\ pc[t] = from_pc
    /\ conn[loc[t].c].lock = 0
    /\ conn' = [conn EXCEPT ![loc[t].c].lock = t]
    /\ Goto(t, to_pc)
    /\ UNCHANGED <<connections, cport_id_map, gb_connection_mutex,
                   gb_connections_lock, control, driver, hd_enabled,
                   svc_routes, handles, loc>>

\* mutex_unlock(&connection->mutex) and the return
mutex_unlock(t, from_pc, to_pc) ==
    /\ pc[t] = from_pc
    /\ conn' = [conn EXCEPT ![loc[t].c].mutex = 0]
    /\ Goto(t, to_pc)
    /\ UNCHANGED <<connections, cport_id_map, gb_connection_mutex,
                   gb_connections_lock, control, driver, hd_enabled,
                   svc_routes, handles>>

\* faulty variant: an Enabled connection takes a new handler as an
\* Enabled-Tx one does
enable_again(state, handler) ==
    IF state = GB_CONNECTION_STATE_ENABLED
    THEN IF handler = NULL THEN "en_out_unlock" ELSE "en_tx_lock"
    ELSE IF state = GB_CONNECTION_STATE_ENABLED_TX
    THEN IF handler = NULL THEN "en_out_unlock" ELSE "en_tx_lock"
    ELSE "en_hd_cport_enable"

\* ------------------------------------------------------ gb_connection_enable
\* the branch of gb_connection_enable() on connection->state
enable_branch(state, handler) ==
    IF state = GB_CONNECTION_STATE_ENABLED
    THEN "en_out_unlock"
    ELSE IF state = GB_CONNECTION_STATE_ENABLED_TX
    THEN IF handler = NULL THEN "en_out_unlock" ELSE "en_tx_lock"
    ELSE "en_hd_cport_enable"

\* gb_connection_enable(connection, handler):
\* mutex_lock(&connection->mutex), then the tests of connection->state
gb_connection_enable(t) ==
    /\ pc[t] = "idle"
    /\ \E c \in handles, handler \in {NULL} \cup Handlers :
        /\ mutex_free(conn[c].mutex)
        /\ conn' = [conn EXCEPT ![c].mutex = t]
        /\ loc' = [loc EXCEPT ![t] = [Idle EXCEPT !.fn = "enable", !.c = c,
                                                  !.handler = handler,
                                                  !.state = conn[c].state]]
        /\ Goto(t, enable_branch(conn[c].state, handler))
    /\ UNCHANGED <<connections, cport_id_map, gb_connection_mutex,
                   gb_connections_lock, control, driver, hd_enabled,
                   svc_routes, handles>>

\* ENABLED_TX with a handler: spin_lock_irq(&connection->lock)
enable_tx_lock(t) == spin_lock(t, "en_tx_lock", "en_tx_set")

\* connection->handler = handler; connection->state = ENABLED; unlock
enable_tx_set(t) ==
    /\ pc[t] = "en_tx_set"
    /\ conn' = [conn EXCEPT ![loc[t].c].handler = loc[t].handler,
                            ![loc[t].c].state = GB_CONNECTION_STATE_ENABLED,
                            ![loc[t].c].lock = 0]
    /\ Goto(t, "en_out_unlock")
    /\ UNCHANGED <<connections, cport_id_map, gb_connection_mutex,
                   gb_connections_lock, control, driver, hd_enabled,
                   svc_routes, handles, loc>>

\* ret = gb_connection_hd_cport_enable(connection)
enable_hd_cport_enable(t) ==
    /\ pc[t] = "en_hd_cport_enable"
    /\ gb_connection_hd_cport_enable(t, "en_svc_create", "en_err_unlock")
    /\ UNCHANGED <<conn, connections, cport_id_map, gb_connection_mutex,
                   gb_connections_lock, control, driver, svc_routes, handles>>

\* faulty variant: a failed svc create leaves by err_unlock
enable_svc_create_no_undo(t) ==
    /\ pc[t] = "en_svc_create"
    /\ gb_connection_svc_connection_create(t, "en_set_lock", "en_err_unlock")
    /\ UNCHANGED <<conn, connections, cport_id_map, gb_connection_mutex,
                   gb_connections_lock, control, driver, hd_enabled, handles>>

\* ret = gb_connection_svc_connection_create(connection)
enable_svc_create(t) ==
    /\ pc[t] = "en_svc_create"
    /\ gb_connection_svc_connection_create(t, "en_set_lock",
                                           "en_err_hd_cport_disable")
    /\ UNCHANGED <<conn, connections, cport_id_map, gb_connection_mutex,
                   gb_connections_lock, control, driver, hd_enabled, handles>>

\* spin_lock_irq(&connection->lock)
enable_set_lock(t) == spin_lock(t, "en_set_lock", "en_set")

\* faulty variant: the connection is left Enabled-Tx whatever the handler
enable_state_tx(handler) == GB_CONNECTION_STATE_ENABLED_TX

\* the state enable sets for a handler
enable_state(handler) ==
    IF handler # NULL THEN GB_CONNECTION_STATE_ENABLED
                      ELSE GB_CONNECTION_STATE_ENABLED_TX

\* connection->handler = handler; connection->state = ...; unlock
enable_set(t) ==
    /\ pc[t] = "en_set"
    /\ conn' = [conn EXCEPT ![loc[t].c].handler = loc[t].handler,
                            ![loc[t].c].state = enable_state(loc[t].handler),
                            ![loc[t].c].lock = 0]
    /\ Goto(t, "en_connected")
    /\ UNCHANGED <<connections, cport_id_map, gb_connection_mutex,
                   gb_connections_lock, control, driver, hd_enabled,
                   svc_routes, handles, loc>>

\* ret = gb_connection_control_connected(connection)
enable_connected(t) ==
    /\ pc[t] = "en_connected"
    /\ gb_connection_control_connected(t, "en_out_unlock", "en_err_svc_lock")
    /\ UNCHANGED <<conn, connections, cport_id_map, gb_connection_mutex,
                   gb_connections_lock, control, driver, hd_enabled,
                   svc_routes, handles>>

\* out_unlock: mutex_unlock(&connection->mutex); return 0
enable_out_unlock(t) ==
    /\ mutex_unlock(t, "en_out_unlock", "enable_ret")
    /\ loc' = [loc EXCEPT ![t].ret = 0]

\* err_svc_destroy: spin_lock_irq(&connection->lock)
enable_err_svc_lock(t) == spin_lock(t, "en_err_svc_lock", "en_err_state")

\* connection->state = GB_CONNECTION_STATE_DISABLED, then the cancel loop
enable_err_state(t) ==
    /\ pc[t] = "en_err_state"
    /\ conn' = [conn EXCEPT
                   ![loc[t].c].state = GB_CONNECTION_STATE_DISABLED]
    /\ Goto(t, "cancel_check")
    /\ UNCHANGED <<connections, cport_id_map, gb_connection_mutex,
                   gb_connections_lock, control, driver, hd_enabled,
                   svc_routes, handles, loc>>

\* faulty variant: the unlock without connection->handler = NULL
keep_handler(t, from_pc, to_pc) ==
    /\ pc[t] = from_pc
    /\ conn' = [conn EXCEPT ![loc[t].c].lock = 0]
    /\ Goto(t, to_pc)
    /\ UNCHANGED <<connections, cport_id_map, gb_connection_mutex,
                   gb_connections_lock, control, driver, hd_enabled,
                   svc_routes, handles, loc>>

\* connection->handler = NULL; spin_unlock_irq(&connection->lock)
clear_handler(t, from_pc, to_pc) ==
    /\ pc[t] = from_pc
    /\ conn' = [conn EXCEPT ![loc[t].c].handler = NULL,
                            ![loc[t].c].lock = 0]
    /\ Goto(t, to_pc)
    /\ UNCHANGED <<connections, cport_id_map, gb_connection_mutex,
                   gb_connections_lock, control, driver, hd_enabled,
                   svc_routes, handles, loc>>

enable_err_handler(t) ==
    clear_handler(t, "en_err_handler", "en_err_svc_destroy")

\* faulty variant: the rollback leaves the svc route in place
enable_err_keep_route(t) ==
    /\ pc[t] = "en_err_svc_destroy"
    /\ Goto(t, "en_err_hd_cport_disable")
    /\ UNCHANGED <<conn, connections, cport_id_map, gb_connection_mutex,
                   gb_connections_lock, control, driver, hd_enabled,
                   svc_routes, handles, loc>>

\* gb_connection_svc_connection_destroy(connection)
enable_err_svc_destroy(t) ==
    /\ pc[t] = "en_err_svc_destroy"
    /\ gb_connection_svc_connection_destroy(t, "en_err_hd_cport_disable")
    /\ UNCHANGED <<conn, connections, cport_id_map, gb_connection_mutex,
                   gb_connections_lock, control, driver, hd_enabled, handles>>

\* err_hd_cport_disable: gb_connection_hd_cport_disable(connection)
enable_err_hd_cport_disable(t) ==
    /\ pc[t] = "en_err_hd_cport_disable"
    /\ gb_connection_hd_cport_disable(t, "en_err_unlock")
    /\ UNCHANGED <<conn, connections, cport_id_map, gb_connection_mutex,
                   gb_connections_lock, control, driver, svc_routes, handles>>

\* err_unlock: mutex_unlock(&connection->mutex); return ret
enable_err_unlock(t) ==
    /\ mutex_unlock(t, "en_err_unlock", "enable_ret")
    /\ UNCHANGED loc

\* --------------------------------------------------- gb_connection_disable_rx
\* gb_connection_disable_rx(connection): mutex_lock(&connection->mutex)
gb_connection_disable_rx(t) ==
    /\ pc[t] = "idle"
    /\ \E c \in handles :
        /\ mutex_free(conn[c].mutex)
        /\ conn' = [conn EXCEPT ![c].mutex = t]
        /\ loc' = [loc EXCEPT ![t] = [Idle EXCEPT !.fn = "disable_rx",
                                                  !.c = c]]
    /\ Goto(t, "rx_spin")
    /\ UNCHANGED <<connections, cport_id_map, gb_connection_mutex,
                   gb_connections_lock, control, driver, hd_enabled,
                   svc_routes, handles>>

\* spin_lock_irq(&connection->lock)
disable_rx_spin(t) == spin_lock(t, "rx_spin", "rx_state")

\* not ENABLED: unlock and leave; else state = ENABLED_TX, then the flush
disable_rx_state(t) ==
    /\ pc[t] = "rx_state"
    /\ LET c == loc[t].c
       IN  IF conn[c].state # GB_CONNECTION_STATE_ENABLED
           THEN /\ conn' = [conn EXCEPT ![c].lock = 0]
                /\ Goto(t, "rx_out_unlock")
           ELSE /\ conn' = [conn EXCEPT
                               ![c].state = GB_CONNECTION_STATE_ENABLED_TX]
                /\ Goto(t, "flush_check")
    /\ loc' = [loc EXCEPT ![t].state = conn[loc[t].c].state]
    /\ UNCHANGED <<connections, cport_id_map, gb_connection_mutex,
                   gb_connections_lock, control, driver, hd_enabled,
                   svc_routes, handles>>

disable_rx_handler(t) == clear_handler(t, "rx_handler", "rx_out_unlock")

\* out_unlock: mutex_unlock(&connection->mutex)
disable_rx_out_unlock(t) ==
    /\ mutex_unlock(t, "rx_out_unlock", "disable_rx_ret")
    /\ UNCHANGED loc

\* ----------------------------------------------------- gb_connection_disable
\* faulty variant: disable without the test of connection->state
disable_always(state) == "dis_disconnected"

\* the branch of gb_connection_disable() on connection->state
disable_branch(state) ==
    IF state = GB_CONNECTION_STATE_DISABLED THEN "dis_out_unlock"
                                            ELSE "dis_disconnected"

\* gb_connection_disable(connection): mutex_lock(&connection->mutex), then
\* the test of connection->state
gb_connection_disable(t) ==
    /\ pc[t] = "idle"
    /\ \E c \in handles :
        /\ mutex_free(conn[c].mutex)
        /\ conn' = [conn EXCEPT ![c].mutex = t]
        /\ loc' = [loc EXCEPT ![t] = [Idle EXCEPT !.fn = "disable", !.c = c,
                                                  !.state = conn[c].state]]
        /\ Goto(t, disable_branch(conn[c].state))
    /\ UNCHANGED <<connections, cport_id_map, gb_connection_mutex,
                   gb_connections_lock, control, driver, hd_enabled,
                   svc_routes, handles>>

\* faulty variant: disable goes on without the disconnected notification
disable_no_notification(t) ==
    /\ pc[t] = "dis_disconnected"
    /\ Goto(t, "dis_spin")
    /\ UNCHANGED <<conn, connections, cport_id_map, gb_connection_mutex,
                   gb_connections_lock, control, driver, hd_enabled,
                   svc_routes, handles, loc>>

\* gb_connection_control_disconnected(connection)
disable_disconnected(t) ==
    /\ pc[t] = "dis_disconnected"
    /\ gb_connection_control_disconnected(t, "dis_spin")
    /\ UNCHANGED <<conn, connections, cport_id_map, gb_connection_mutex,
                   gb_connections_lock, control, driver, hd_enabled,
                   svc_routes, handles>>

\* spin_lock_irq(&connection->lock)
disable_spin(t) == spin_lock(t, "dis_spin", "dis_state")

\* connection->state = GB_CONNECTION_STATE_DISABLED, then the cancel loop
disable_state(t) ==
    /\ pc[t] = "dis_state"
    /\ conn' = [conn EXCEPT
                   ![loc[t].c].state = GB_CONNECTION_STATE_DISABLED]
    /\ Goto(t, "cancel_check")
    /\ UNCHANGED <<connections, cport_id_map, gb_connection_mutex,
                   gb_connections_lock, control, driver, hd_enabled,
                   svc_routes, handles, loc>>

disable_handler(t) == clear_handler(t, "dis_handler", "dis_svc_destroy")

\* gb_connection_svc_connection_destroy(connection)
disable_svc_destroy(t) ==
    /\ pc[t] = "dis_svc_destroy"
    /\ gb_connection_svc_connection_destroy(t, "dis_hd_cport_disable")
    /\ UNCHANGED <<conn, connections, cport_id_map, gb_connection_mutex,
                   gb_connections_lock, control, driver, hd_enabled, handles>>

\* gb_connection_hd_cport_disable(connection)
disable_hd_cport_disable(t) ==
    /\ pc[t] = "dis_hd_cport_disable"
    /\ gb_connection_hd_cport_disable(t, "dis_out_unlock")
    /\ UNCHANGED <<conn, connections, cport_id_map, gb_connection_mutex,
                   gb_connections_lock, control, driver, svc_routes, handles>>

\* out_unlock: mutex_unlock(&connection->mutex)
disable_out_unlock(t) ==
    /\ mutex_unlock(t, "dis_out_unlock", "disable_ret")
    /\ UNCHANGED loc

\* ------------------------------------------------------------ specifications
\* a connection as gb_connection_create() leaves it
Created(id, intf, bundle, cport_id) ==
    [NoConn EXCEPT !.mem = "live", !.hd_cport_id = id, !.intf = intf,
                   !.bundle = bundle, !.intf_cport_id = cport_id,
                   !.kref = 1, !.wq = TRUE]

InitCommon ==
    /\ gb_connection_mutex = 0
    /\ gb_connections_lock = 0
    /\ hd_enabled = {}
    /\ svc_routes = {}
    /\ pc = [t \in Threads |-> "idle"]
    /\ loc = [t \in Threads |-> Idle]

\* the host device right after gb_hd_create(): no connection yet
InitReg ==
    /\ InitCommon
    /\ conn = [c \in Conns |-> NoConn]
    /\ connections = <<>>
    /\ cport_id_map = {}
    /\ control = [i \in Intfs |-> NULL]
    /\ driver = [cport_enable |-> TRUE, cport_disable |-> TRUE]
    /\ handles = {}

\* one connection under test, created and not yet enabled: a static one, the
\* control connection of interface 1, or a dynamic connection of interface 1
\* (whose control connection then exists as well)
InitSM ==
    /\ InitCommon
    /\ driver \in [cport_enable : BOOLEAN, cport_disable : BOOLEAN]
    /\ \/ \E id \in Ids :
            /\ conn = [c \in Conns |->
                  IF c = 1 THEN Created(id, NULL, NULL, 0) ELSE NoConn]
            /\ connections = <<1>>
            /\ cport_id_map = {id}
            /\ control = [i \in Intfs |-> NULL]
            /\ handles = {1}
       \/ /\ conn = [c \in Conns |->
                  IF c = 1 THEN Created(0, 1, NULL, 0) ELSE NoConn]
          /\ connections = <<1>>
          /\ cport_id_map = {0}
          /\ control = [i \in Intfs |-> IF i = 1 THEN 1 ELSE NULL]
          /\ handles = {1}
       \/ \E cport_id \in 1..MaxRemote :
            /\ conn = [c \in Conns |->
                  IF c = 1 THEN Created(0, 1, NULL, 0)
                  ELSE IF c = 2 THEN Created(1, 1, 1, cport_id)
                  ELSE NoConn]
            /\ connections = <<2, 1>>
            /\ cport_id_map = {0, 1}
            /\ control = [i \in Intfs |-> IF i = 1 THEN 1 ELSE NULL]
            /\ handles = {2}

\* a dynamic connection of interface 1 and the interface's control
\* connection, on a host device whose driver has both hooks
InitRx ==
    /\ InitCommon
    /\ driver = [cport_enable |-> TRUE, cport_disable |-> TRUE]
    /\ conn = [c \in Conns |->
          IF c = 1 THEN Created(0, 1, NULL, 0)
          ELSE IF c = 2 THEN Created(1, 1, 1, 1)
          ELSE NoConn]
    /\ connections = <<2, 1>>
    /\ cport_id_map = {0, 1}
    /\ control = [i \in Intfs |-> IF i = 1 THEN 1 ELSE NULL]
    /\ handles = {2}

\* the steps of greybus_data_rcvd()
DispatchStep(t) ==
    \/ greybus_data_rcvd(t)
    \/ gb_connection_hd_find(t)
    \/ gb_connection_recv(t)
    \/ data_rcvd_put(t)
    \/ call_ret(t)

\* the steps of create and destroy
RegStep(t) ==
    \/ gb_connection_create_static(t)
    \/ gb_connection_create_control(t)
    \/ gb_connection_create_dynamic(t)
    \/ create_find(t)
    \/ create_alloc(t)
    \/ create_wq(t)
    \/ create_link_lock(t)
    \/ create_link(t)
    \/ create_unlock(t)
    \/ create_err_remove_ida(t)
    \/ create_err_unlock(t)
    \/ gb_connection_destroy(t)
    \/ gb_connection_destroy_null(t)
    \/ destroy_unlink_lock(t)
    \/ destroy_unlink(t)
    \/ destroy_wq(t)
    \/ destroy_ida(t)
    \/ destroy_unlock(t)
    \/ destroy_put(t)
    \/ call_ret(t)

\* the steps of gb_connection_create_dynamic and gb_connection_destroy
DynStep(t) ==
    \/ gb_connection_create_dynamic(t)
    \/ create_find(t)
    \/ create_alloc(t)
    \/ create_wq(t)
    \/ create_link_lock(t)
    \/ create_link(t)
    \/ create_unlock(t)
    \/ create_err_remove_ida(t)
    \/ create_err_unlock(t)
    \/ gb_connection_destroy(t)
    \/ destroy_unlink_lock(t)
    \/ destroy_unlink(t)
    \/ destroy_wq(t)
    \/ destroy_ida(t)
    \/ destroy_unlock(t)
    \/ destroy_put(t)
    \/ call_ret(t)

\* the steps of enable, disable_rx and disable
SMStep(t) ==
    \/ gb_connection_enable(t)
    \/ enable_tx_lock(t)
    \/ enable_tx_set(t)
    \/ enable_hd_cport_enable(t)
    \/ enable_svc_create(t)
    \/ enable_set_lock(t)
    \/ enable_set(t)
    \/ enable_connected(t)
    \/ enable_out_unlock(t)
    \/ enable_err_svc_lock(t)
    \/ enable_err_state(t)
    \/ enable_err_handler(t)
    \/ enable_err_svc_destroy(t)
    \/ enable_err_hd_cport_disable(t)
    \/ enable_err_unlock(t)
    \/ gb_connection_disable_rx(t)
    \/ disable_rx_spin(t)
    \/ disable_rx_state(t)
    \/ disable_rx_handler(t)
    \/ disable_rx_out_unlock(t)
    \/ gb_connection_disable(t)
    \/ disable_disconnected(t)
    \/ disable_spin(t)
    \/ disable_state(t)
    \/ disable_handler(t)
    \/ disable_svc_destroy(t)
    \/ disable_hd_cport_disable(t)
    \/ disable_out_unlock(t)
    \/ cancel_check(t)
    \/ cancel_call(t)
    \/ loop_relock(t)
    \/ flush_check(t)
    \/ flush_call(t)
    \/ call_ret(t)

OpLayerStep ==
    \/ gb_operation_request_send
    \/ gb_operation_put_active

NextReg == \E t \in RegCallers : RegStep(t)

NextRef ==
    \/ \E t \in SMCallers : RegStep(t)
    \/ \E t \in Dispatchers : DispatchStep(t)

NextSM ==
    \/ \E t \in SMCallers : SMStep(t)
    \/ request_received
    \/ OpLayerStep

NextRx ==
    \/ \E t \in SMCallers : SMStep(t)
    \/ \E t \in Dispatchers : DispatchStep(t)
    \/ OpLayerStep

\* enable, disable_rx and disable called from two threads on one
\* connection, with requests coming in
NextMx ==
    \/ \E t \in MxCallers : SMStep(t)
    \/ request_received

\* one thread in create and destroy, one in enable, disable_rx and disable,
\* and the receive dispatcher
NextLock ==
    \/ \E t \in Creators : DynStep(t)
    \/ \E t \in Enablers : SMStep(t)
    \/ \E t \in Dispatchers : DispatchStep(t)

\* create and destroy, called from two threads, on one host device
SpecReg == InitReg /\ [][NextReg]_vars

\* create and destroy racing the receive dispatcher
SpecRef == InitReg /\ [][NextRef]_vars

\* enable, disable_rx, disable and the operation layer on one connection
SpecSM == InitSM /\ [][NextSM]_vars

\* enable, disable_rx, disable and the operation layer racing the receive
\* dispatcher, on a dynamic connection over a driver with both hooks
SpecRx == InitRx /\ [][NextRx]_vars

\* two callers of enable, disable_rx and disable on the same dynamic
\* connection, over a driver with both hooks
SpecMx == InitRx /\ [][NextMx]_vars

\* every lock of the file in use at once: dynamic connections created and
\* destroyed by one thread, enabled and disabled by another, with the
\* receive dispatcher, next to an interface's control connection
SpecLock == InitRx /\ [][NextLock]_vars

\* SpecSM on a dynamic connection over a driver with both hooks, with a
\* caller that, once inside enable, disable_rx or disable, goes on running:
\* no step of a call waits for anything but connection->lock, which the
\* operation layer holds for bounded sections only
SpecLive ==
    /\ InitRx
    /\ [][NextSM]_vars
    /\ \A t \in SMCallers : WF_vars(pc[t] # "idle" /\ SMStep(t))

\* ------------------------------------------------------------- properties
\* the connections linked on hd->connections
Linked == Range(connections)

\* thread t has stepped
Stepped(t) == pc'[t] # pc[t]

\* a create call that holds an id and has not linked its connection yet
HoldsNewId(t) ==
    pc[t] \in {"create_alloc", "create_wq", "create_link_lock", "create_link"}

\* C1: no two connections linked on the host device's list have the same
\* hd_cport_id, and the id a create call has taken for its new connection
\* is the id of no linked connection
C1_IdUnique ==
    /\ \A i, j \in 1..Len(connections) :
          i # j => conn[connections[i]].hd_cport_id
                       # conn[connections[j]].hd_cport_id
    /\ \A t \in Threads :
          HoldsNewId(t) =>
              \A c \in Linked : conn[c].hd_cport_id # loc[t].hd_cport_id

\* a dynamic create is about to link a connection with id 0 while the
\* connection with id 1 is linked: id 0 was requested, or freed and reused
C1_Witness ==
    \E t \in RegCallers :
        /\ pc[t] = "create_link"
        /\ loc[t].fn = "create_dynamic"
        /\ conn[loc[t].c].hd_cport_id = 0
        /\ \E c \in Linked : conn[c].hd_cport_id = 1

\* a connection for (intf, cport_id) is registered
Registered(intf, cport_id) ==
    \E c \in Linked : /\ conn[c].intf = intf
                      /\ conn[c].intf_cport_id = cport_id

\* the call of t is a create for a pair that is registered
DuplicateCreate(t) ==
    /\ pc[t] \in {"create_find", "create_err_unlock"}
    /\ loc[t].intf # NULL
    /\ Registered(loc[t].intf, loc[t].cport_id)

OnePerPair ==
    \A i, j \in 1..Len(connections) :
        (/\ i # j
         /\ conn[connections[i]].intf # NULL
         /\ conn[connections[i]].intf = conn[connections[j]].intf)
            => conn[connections[i]].intf_cport_id
                   # conn[connections[j]].intf_cport_id

\* the steps of a duplicate create: from the duplicate check to err_unlock
\* and from there to the return of NULL, with the allocator, the list and
\* the connections as they were, and no connection handed to the caller
DuplicateRejected ==
    \A t \in Threads :
        (DuplicateCreate(t) /\ Stepped(t)) =>
            /\ pc'[t] = IF pc[t] = "create_find" THEN "create_err_unlock"
                                                 ELSE "idle"
            /\ loc[t].c = NULL
            /\ UNCHANGED <<cport_id_map, connections, conn, handles, control>>

\* C2: a create (control or dynamic) for an (interface, remote id) pair that
\* is registered returns NULL, reserves no id and leaves the registry as it
\* was; at most one linked connection exists per pair
C2_DuplicateRejected == []OnePerPair /\ [][DuplicateRejected]_vars

\* a duplicate create has been turned down and is about to return NULL,
\* with both ids of the host device still free or held as before
C2_Witness ==
    \E t \in RegCallers :
        /\ pc[t] = "create_err_unlock"
        /\ DuplicateCreate(t)
        /\ loc[t].log = <<"dev_err">>
        /\ Cardinality(cport_id_map) = 1

\* the connection a call of t is on, during the call and at its first step
CallConn(t) == IF loc[t].c # NULL THEN loc[t].c ELSE loc'[t].c

\* t takes a step of a call of one of fns
StepOf(t, fns) ==
    /\ Stepped(t)
    /\ \/ loc[t].fn \in fns
       \/ loc'[t].fn \in fns

Incoming(ops) == SelectSeq(ops, LAMBDA o : o.incoming)

Outgoing(ops) == SelectSeq(ops, LAMBDA o : ~o.incoming)

\* C3: when gb_connection_disable returns on a connection it found Enabled
\* or Enabled-Tx, the operation set is empty, the handler is NULL and the
\* state is Disabled, with receive dispatches and completions running
\* during the cancel loop
C3_DisableDrains ==
    \A t \in SMCallers :
        (/\ pc[t] = "disable_ret"
         /\ loc[t].state # GB_CONNECTION_STATE_DISABLED) =>
            /\ conn[loc[t].c].operations = <<>>
            /\ conn[loc[t].c].handler = NULL
            /\ conn[loc[t].c].state = GB_CONNECTION_STATE_DISABLED

\* disable returns on a connection it found Enabled, having cancelled an
\* incoming and an outgoing operation, while the dispatcher holds the
\* connection and is about to hand it a message
C3_Witness ==
    \E t \in SMCallers, d \in Dispatchers :
        /\ pc[t] = "disable_ret"
        /\ loc[t].state = GB_CONNECTION_STATE_ENABLED
        /\ Incoming(loc[t].cancelled) # <<>>
        /\ Outgoing(loc[t].cancelled) # <<>>
        /\ pc[d] = "rcvd_recv"
        /\ loc[d].c = loc[t].c

\* at the return of disable_rx on a connection it found Enabled
DisableRxDone ==
    \A t \in SMCallers :
        (/\ pc[t] = "disable_rx_ret"
         /\ loc[t].state = GB_CONNECTION_STATE_ENABLED) =>
            /\ Incoming(conn[loc[t].c].operations) = <<>>
            /\ conn[loc[t].c].state = GB_CONNECTION_STATE_ENABLED_TX
            /\ conn[loc[t].c].handler = NULL
            /\ Outgoing(loc[t].cancelled) = <<>>

\* no step of disable_rx takes an outgoing operation off the set
DisableRxKeepsOutgoing ==
    \A t \in SMCallers :
        StepOf(t, {"disable_rx"}) =>
            Outgoing(conn'[CallConn(t)].operations)
                = Outgoing(conn[CallConn(t)].operations)

\* C4: when gb_connection_disable_rx returns on a connection it found
\* Enabled, the set holds no incoming operation, the state is Enabled-Tx,
\* the handler is NULL, and disable_rx has asked to cancel no outgoing
\* operation nor taken one off the set
C4_DisableRxFlushes == []DisableRxDone /\ [][DisableRxKeepsOutgoing]_vars

\* disable_rx returns having cancelled an incoming operation, with an
\* outgoing operation still in the set
C4_Witness ==
    \E t \in SMCallers :
        /\ pc[t] = "disable_rx_ret"
        /\ loc[t].state = GB_CONNECTION_STATE_ENABLED
        /\ loc[t].cancelled # <<>>
        /\ Outgoing(conn[loc[t].c].operations) # <<>>

\* how often a call has logged e
Count(log, e) == Cardinality({i \in 1..Len(log) : log[i] = e})

\* the calls the host driver sees from gb_connection_hd_cport_enable() and
\* gb_connection_hd_cport_disable(): one if it has the hook
HdEnable == IF driver.cport_enable THEN <<"cport_enable">> ELSE <<>>

HdDisable == IF driver.cport_disable THEN <<"cport_disable">> ELSE <<>>

\* the cancel requests for a sequence of operations
CancelLog(ops) ==
    [i \in 1..Len(ops) |->
        IF ops[i].incoming THEN "cancel_incoming" ELSE "cancel"]

\* an enable call in which the svc create step has failed
SvcCreateFailed(t) ==
    /\ loc[t].fn = "enable"
    /\ Count(loc[t].log, "svc_create_err") > 0

\* C5: when the svc create step fails in gb_connection_enable on a Disabled
\* connection that is not static, enable returns the error of that step,
\* the host driver's cport_disable is called exactly once (if the driver has
\* one), the svc destroy and the connected notification are not called, and
\* the state is Disabled from the entry of the call to its return
C5_SvcCreateFailure ==
    \A t \in SMCallers :
        /\ (SvcCreateFailed(t) /\ pc[t] = "enable_ret") =>
              /\ loc[t].ret = Errno.svc
              /\ Count(loc[t].log, "cport_disable")
                    = (IF driver.cport_disable THEN 1 ELSE 0)
              /\ Count(loc[t].log, "svc_destroy") = 0
              /\ Count(loc[t].log, "connected") = 0
              /\ Count(loc[t].log, "connected_err") = 0
        /\ (\/ SvcCreateFailed(t)
            \/ pc[t] \in {"en_hd_cport_enable", "en_svc_create"}) =>
              /\ loc[t].state = GB_CONNECTION_STATE_DISABLED
              /\ conn[loc[t].c].state = GB_CONNECTION_STATE_DISABLED
              /\ conn[loc[t].c].hd_cport_id \notin svc_routes

\* enable returns after a failed svc create on the control connection of an
\* interface, with the cport the driver had enabled disabled again
C5_Witness ==
    \E t \in SMCallers :
        /\ pc[t] = "enable_ret"
        /\ SvcCreateFailed(t)
        /\ ~gb_connection_is_static(loc[t].c)
        /\ loc[t].log = <<"cport_enable", "svc_create_err", "cport_disable">>
        /\ hd_enabled = {}

\* what an enable call that returns an error has logged, by the step that
\* failed
RollbackLog(t) ==
    IF Count(loc[t].log, "cport_enable_err") > 0
    THEN [ret |-> Errno.hd, log |-> <<"cport_enable_err">>]
    ELSE IF Count(loc[t].log, "svc_create_err") > 0
    THEN [ret |-> Errno.svc,
          log |-> HdEnable \o <<"svc_create_err">> \o HdDisable]
    ELSE [ret |-> Errno.control,
          log |-> HdEnable \o <<"svc_create", "connected_err">>
                      \o CancelLog(loc[t].cancelled)
                      \o <<"svc_destroy">> \o HdDisable]

\* the positions of enable's rollback after a failed connected notification
RollbackPcs ==
    {"en_err_state", "cancel_check", "cancel_call", "cancel_relock",
     "en_err_handler", "en_err_svc_destroy", "en_err_hd_cport_disable",
     "en_err_unlock", "enable_ret"}

\* C6: gb_connection_enable returns an error exactly when one of its three
\* steps has failed, and then with state Disabled, handler NULL, and the
\* layers brought up before the failure torn down in reverse order; after a
\* failed connected notification the state is Disabled before the first
\* cancel, every operation is off the set when the cancel loop ends, and
\* the svc destroy and the cport disable follow in that order
C6_EnableAllOrNothing ==
    \A t \in SMCallers :
        /\ (pc[t] = "enable_ret" /\ loc[t].ret # 0) =>
              /\ loc[t].state = GB_CONNECTION_STATE_DISABLED
              /\ loc[t].ret = RollbackLog(t).ret
              /\ loc[t].log = RollbackLog(t).log
              /\ conn[loc[t].c].state = GB_CONNECTION_STATE_DISABLED
              /\ conn[loc[t].c].handler = NULL
              /\ conn[loc[t].c].hd_cport_id \notin svc_routes
              /\ driver.cport_disable =>
                    conn[loc[t].c].hd_cport_id \notin hd_enabled
        /\ (pc[t] = "enable_ret" /\ loc[t].ret = 0) =>
              /\ Count(loc[t].log, "cport_enable_err") = 0
              /\ Count(loc[t].log, "svc_create_err") = 0
              /\ Count(loc[t].log, "connected_err") = 0
        /\ (/\ loc[t].fn = "enable"
            /\ Count(loc[t].log, "connected_err") > 0
            /\ pc[t] \in RollbackPcs \ {"en_err_state"}) =>
              conn[loc[t].c].state = GB_CONNECTION_STATE_DISABLED
        /\ (loc[t].fn = "enable" /\ pc[t] = "en_err_handler") =>
              conn[loc[t].c].operations = <<>>
        /\ (loc[t].fn = "enable" /\ loc[t].cancelled # <<>>) =>
              Count(loc[t].log, "svc_destroy")
                  + Count(loc[t].log, "cport_disable") = 0
              \/ pc[t] \in {"en_err_hd_cport_disable", "en_err_unlock",
                            "enable_ret"}

\* enable returns the error of a failed connected notification, having
\* cancelled two operations that had started in the meantime
C6_Witness ==
    \E t \in SMCallers :
        /\ pc[t] = "enable_ret"
        /\ loc[t].ret = Errno.control
        /\ Len(loc[t].cancelled) = 2
        /\ driver.cport_enable
        /\ driver.cport_disable

\* gb_connection_disable has returned: the state is Disabled
DisableEndsDisabled ==
    \A t \in SMCallers :
        pc[t] = "disable_ret" =>
            conn[loc[t].c].state = GB_CONNECTION_STATE_DISABLED

\* a step of disable or disable_rx on a connection that is and was Disabled
\* when the call tested it: nothing of the connection but its locks
\* changes, and nothing is called
DisabledNoOp ==
    \A t \in SMCallers :
        (/\ StepOf(t, {"disable", "disable_rx"})
         /\ conn[CallConn(t)].state = GB_CONNECTION_STATE_DISABLED
         /\ loc'[t].state \in {"", GB_CONNECTION_STATE_DISABLED}) =>
            /\ conn'[CallConn(t)].state = GB_CONNECTION_STATE_DISABLED
            /\ conn'[CallConn(t)].handler = conn[CallConn(t)].handler
            /\ conn'[CallConn(t)].operations = conn[CallConn(t)].operations
            /\ loc'[t].log = <<>>
            /\ loc'[t].cancelled = <<>>
            /\ UNCHANGED <<hd_enabled, svc_routes>>

\* a connection leaves Disabled by a step of enable on it
OnlyEnableLeavesDisabled ==
    \A c \in Conns :
        (/\ conn[c].state = GB_CONNECTION_STATE_DISABLED
         /\ conn'[c].state # GB_CONNECTION_STATE_DISABLED) =>
            \E t \in SMCallers :
                /\ StepOf(t, {"enable"})
                /\ loc[t].c = c

\* C7: gb_connection_disable returns with state Disabled from every state,
\* also when the disconnected notification fails; on a Disabled connection
\* disable and disable_rx change neither state, handler nor operation set
\* and call no other layer; only enable moves a connection out of Disabled
C7_Closure ==
    /\ []DisableEndsDisabled
    /\ [][DisabledNoOp /\ OnlyEnableLeavesDisabled]_vars

\* disable returns on a connection it found Enabled-Tx after the
\* disconnected notification has failed
C7_Witness ==
    \E t \in SMCallers :
        /\ pc[t] = "disable_ret"
        /\ loc[t].state = GB_CONNECTION_STATE_ENABLED_TX
        /\ Count(loc[t].log, "dev_warn") = 1
        /\ conn[loc[t].c].state = GB_CONNECTION_STATE_DISABLED

\* the calls into the svc and into the control protocol a call has logged
SvcCalls(log) ==
    Count(log, "svc_create") + Count(log, "svc_create_err")
        + Count(log, "svc_destroy")

ControlCalls(log) ==
    Count(log, "connected") + Count(log, "connected_err")
        + Count(log, "disconnected")

\* an enable call that found the connection Disabled has returned 0
EnabledFromDisabled(t) ==
    /\ pc[t] = "enable_ret"
    /\ loc[t].state = GB_CONNECTION_STATE_DISABLED
    /\ loc[t].ret = 0

\* a disable call that found the connection not Disabled has returned
DisabledFromEnabled(t) ==
    /\ pc[t] = "disable_ret"
    /\ loc[t].state # GB_CONNECTION_STATE_DISABLED

\* C10: on a static connection no call of enable, disable or disable_rx
\* calls the svc or the control protocol, an enable from Disabled that
\* succeeds calls the driver's cport_enable once and the disable that
\* follows its cport_disable once (if the driver has them); on an
\* interface's control connection the svc is called and the control
\* protocol never is
C10_SkipRules ==
    \A t \in SMCallers :
        LET c == loc[t].c
            log == loc[t].log
        IN  /\ (c # NULL /\ conn[c].intf = NULL) =>
                  /\ SvcCalls(log) = 0
                  /\ ControlCalls(log) = 0
                  /\ conn[c].hd_cport_id \notin svc_routes
                  /\ EnabledFromDisabled(t) => log = HdEnable
                  /\ DisabledFromEnabled(t) =>
                        log = CancelLog(loc[t].cancelled) \o HdDisable
            /\ (c # NULL /\ conn[c].intf # NULL
                         /\ control[conn[c].intf] = c) =>
                  /\ ControlCalls(log) = 0
                  /\ EnabledFromDisabled(t) =>
                        log = HdEnable \o <<"svc_create">>
                  /\ DisabledFromEnabled(t) =>
                        log = CancelLog(loc[t].cancelled)
                                  \o <<"svc_destroy">> \o HdDisable

\* disable returns on a static connection that an enable with a handler had
\* made Enabled: the driver's cport_disable was the one call made, on the
\* cport that cport_enable had enabled
C10_Witness ==
    \E t \in SMCallers :
        /\ DisabledFromEnabled(t)
        /\ loc[t].state = GB_CONNECTION_STATE_ENABLED
        /\ conn[loc[t].c].intf = NULL
        /\ driver.cport_enable
        /\ loc[t].log = <<"cport_disable">>
        /\ hd_enabled = {}

\* thread t holds a reference to connection c that it will put
HoldsRef(t, c) ==
    /\ loc[t].c = c
    /\ pc[t] \in {"rcvd_recv", "rcvd_put", "destroy_put"}

\* a connection in use is live and counted: the dispatcher's from
\* gb_connection_hd_find to its put, and destroy's at its put
NoUseAfterFree ==
    /\ \A t \in Threads, c \in Conns :
          HoldsRef(t, c) => /\ conn[c].mem = "live"
                            /\ conn[c].kref >= 1
    /\ \A c \in Conns : conn[c].mem = "free" => conn[c] = NoConn

\* an object whose reference count was initialised is freed by the put that
\* takes the count from 1 to 0, when no other thread holds it and it is off
\* the list; the one other kfree is that of create's err_free_connection,
\* before kref_init
FreedAtZero ==
    \A c \in Conns :
        (conn[c].mem = "live" /\ conn'[c].mem = "free") =>
            \/ /\ conn[c].kref = 1
               /\ c \notin Linked
               /\ c \notin handles
               /\ \E t \in Threads :
                    /\ HoldsRef(t, c)
                    /\ pc[t] \in {"rcvd_put", "destroy_put"}
                    /\ Stepped(t)
                    /\ \A u \in Threads \ {t} : ~HoldsRef(u, c)
            \/ /\ conn[c].kref = 0
               /\ \E t \in Threads : pc[t] = "create_wq" /\ loc[t].c = c

\* C8: a connection the dispatcher got from gb_connection_hd_find is not
\* freed before the dispatcher's gb_connection_put, also when
\* gb_connection_destroy runs to its end in between; an object is freed
\* once, by the put that takes its reference count to zero, and no
\* dispatcher uses a freed object
C8_ReferenceSafety == []NoUseAfterFree /\ [][FreedAtZero]_vars

\* gb_connection_destroy has returned on a connection (off the list, its id
\* given back) that the dispatcher still holds: the dispatcher's reference
\* is the last one
C8_Witness ==
    \E d \in Dispatchers, c \in Conns :
        /\ pc[d] = "rcvd_put"
        /\ loc[d].c = c
        /\ c \notin Linked
        /\ conn[c].hd_cport_id = CPORT_ID_BAD
        /\ conn[c].mem = "live"
        /\ conn[c].kref = 1
        /\ \A t \in SMCallers : pc[t] = "idle"

\* no connection is registered for cport_id
NoConnectionFor(cport_id) ==
    \A c \in Linked : conn[c].hd_cport_id # cport_id

\* a step of greybus_data_rcvd for a cport id with no registered connection
MissStep(d) ==
    /\ Stepped(d)
    /\ \/ pc'[d] = "rcvd_find" /\ NoConnectionFor(loc'[d].cport_id)
       \/ pc[d] = "rcvd_find" /\ NoConnectionFor(loc[d].cport_id)
       \/ pc[d] = "rcvd_ret"

\* such a step changes no connection and not the list; the lookup leads to
\* the one dev_err and the return, not to gb_connection_recv
MissChangesNothing ==
    \A d \in Dispatchers :
        MissStep(d) =>
            /\ UNCHANGED <<conn, connections>>
            /\ pc[d] = "rcvd_find" =>
                  /\ pc'[d] = "rcvd_ret"
                  /\ loc'[d].log = <<"dev_err">>
                  /\ loc'[d].c = NULL
            /\ pc[d] = "rcvd_ret" => pc'[d] = "idle"

\* greybus_data_rcvd is about to return after a miss
MissReported ==
    \A d \in Dispatchers :
        pc[d] = "rcvd_ret" => /\ loc[d].log = <<"dev_err">>
                              /\ loc[d].c = NULL

\* C9: greybus_data_rcvd for a cport id with no registered connection logs
\* one diagnostic, does not call gb_connection_recv, and leaves state,
\* handler, operation set and reference count of every connection as they
\* were
C9_DispatchMiss == []MissReported /\ [][MissChangesNothing]_vars

\* greybus_data_rcvd returns after a miss while a registered connection is
\* Enabled with operations in flight and a disable of it is under way
C9_Witness ==
    \E d \in Dispatchers, t \in SMCallers, c \in Linked :
        /\ pc[d] = "rcvd_ret"
        /\ conn[c].operations # <<>>
        /\ conn[c].handler # NULL
        /\ loc[t].fn = "disable"
        /\ loc[t].c = c

\* what an enable from Disabled that succeeds calls on connection c, in order
EnableLog(c) ==
    HdEnable
        \o (IF gb_connection_is_static(c) THEN <<>> ELSE <<"svc_create">>)
        \o (IF gb_connection_is_static(c) THEN <<>>
            ELSE IF is_control_connection(c) THEN <<>>
            ELSE <<"connected">>)

\* what a disable of connection c that found it not Disabled calls, in
\* order, by the operations it has cancelled and the outcome of the
\* notification
DisableLog(c, cancelled, warned) ==
    (IF gb_connection_is_static(c) THEN <<>>
     ELSE IF is_control_connection(c) THEN <<>>
     ELSE IF warned THEN <<"disconnected", "dev_warn">>
     ELSE <<"disconnected">>)
        \o CancelLog(cancelled)
        \o (IF gb_connection_is_static(c) THEN <<>> ELSE <<"svc_destroy">>)
        \o HdDisable

\* C11: an enable from Disabled that succeeds has called the driver's cport
\* enable, then the svc create, then installed the handler and set the
\* state, then sent the connected notification; a disable from a state
\* other than Disabled goes the reverse way: the disconnected notification
\* while the state is still the old one, then the state set to Disabled,
\* the cancel of every operation and the handler cleared, then the svc
\* destroy, then the driver's cport disable
C11_Ordering ==
    \A t \in SMCallers :
        LET c == loc[t].c
        IN  /\ EnabledFromDisabled(t) => loc[t].log = EnableLog(c)
            /\ (/\ loc[t].fn = "enable"
                /\ loc[t].state = GB_CONNECTION_STATE_DISABLED
                /\ pc[t] \in {"en_hd_cport_enable", "en_svc_create",
                              "en_set_lock", "en_set"}) =>
                  /\ conn[c].state = GB_CONNECTION_STATE_DISABLED
                  /\ conn[c].handler = NULL
                  /\ Count(loc[t].log, "connected") = 0
            /\ (loc[t].fn = "enable" /\ pc[t] \in {"en_set_lock", "en_set"}) =>
                  loc[t].log = HdEnable
                      \o (IF gb_connection_is_static(c) THEN <<>>
                          ELSE <<"svc_create">>)
            /\ (loc[t].fn = "enable" /\ pc[t] = "en_connected") =>
                  /\ conn[c].state = enable_state(loc[t].handler)
                  /\ conn[c].handler = loc[t].handler
                  /\ Count(loc[t].log, "connected") = 0
            /\ DisabledFromEnabled(t) =>
                  loc[t].log = DisableLog(c, loc[t].cancelled,
                                          Count(loc[t].log, "dev_warn") > 0)
            /\ (loc[t].fn = "disable"
                    /\ pc[t] \in {"dis_disconnected", "dis_spin",
                                  "dis_state"}) =>
                  /\ conn[c].state = loc[t].state
                  /\ conn[c].state # GB_CONNECTION_STATE_DISABLED
                  /\ loc[t].cancelled = <<>>
                  /\ SvcCalls(loc[t].log) = 0
                  /\ Count(loc[t].log, "cport_disable") = 0
            /\ (loc[t].fn = "disable"
                    /\ pc[t] \in {"cancel_check", "cancel_call",
                                  "cancel_relock", "dis_handler"}) =>
                  /\ conn[c].state = GB_CONNECTION_STATE_DISABLED
                  /\ SvcCalls(loc[t].log) = 0
                  /\ Count(loc[t].log, "cport_disable") = 0
            /\ (loc[t].fn = "disable"
                    /\ pc[t] \in {"dis_svc_destroy",
                                  "dis_hd_cport_disable"}) =>
                  /\ conn[c].state = GB_CONNECTION_STATE_DISABLED
                  /\ conn[c].handler = NULL
                  /\ conn[c].operations = <<>>
                  /\ Count(loc[t].log, "cport_disable") = 0

\* a dynamic connection over a driver with both hooks: disable returns
\* after all four steps, having cancelled an operation between the
\* notification and the svc destroy
C11_Witness ==
    \E t \in SMCallers :
        /\ DisabledFromEnabled(t)
        /\ Len(loc[t].cancelled) = 1
        /\ loc[t].log = <<"disconnected">> \o CancelLog(loc[t].cancelled)
                            \o <<"svc_destroy", "cport_disable">>

\* an enable call that found the connection in state s
EnableFound(t, s) ==
    /\ loc[t].fn = "enable"
    /\ loc[t].state = s

\* C12: gb_connection_enable on a connection that is Enabled-Tx or Enabled
\* returns 0 and calls neither the host driver, the svc nor the control
\* protocol; from Enabled-Tx with a handler the call installs the handler
\* and sets Enabled, and no step of it changes anything else; from
\* Enabled-Tx without a handler and from Enabled with any handler no step
\* changes the state, the handler or the operation set
C12_EnableAgain ==
    /\ [](\A t \in SMCallers :
            (\/ EnableFound(t, GB_CONNECTION_STATE_ENABLED)
             \/ EnableFound(t, GB_CONNECTION_STATE_ENABLED_TX)) =>
                /\ loc[t].log = <<>>
                /\ loc[t].cancelled = <<>>
                /\ pc[t] = "enable_ret" =>
                      /\ loc[t].ret = 0
                      /\ conn[loc[t].c].state =
                            (IF loc[t].handler # NULL
                             THEN GB_CONNECTION_STATE_ENABLED
                             ELSE loc[t].state)
                      /\ (/\ loc[t].state = GB_CONNECTION_STATE_ENABLED_TX
                          /\ loc[t].handler # NULL) =>
                            conn[loc[t].c].handler = loc[t].handler)
    /\ [][\A t \in SMCallers :
            (/\ StepOf(t, {"enable"})
             /\ \/ EnableFound(t, GB_CONNECTION_STATE_ENABLED)'
                \/ EnableFound(t, GB_CONNECTION_STATE_ENABLED_TX)') =>
                LET c == CallConn(t)
                IN  /\ UNCHANGED <<hd_enabled, svc_routes, connections,
                                   cport_id_map>>
                    /\ conn'[c].operations = conn[c].operations
                    /\ \/ /\ conn'[c].state = conn[c].state
                          /\ conn'[c].handler = conn[c].handler
                       \/ /\ pc[t] = "en_tx_set"
                          /\ loc[t].handler # NULL
                          /\ conn[c].state = GB_CONNECTION_STATE_ENABLED_TX
                          /\ conn'[c].state = GB_CONNECTION_STATE_ENABLED
                          /\ conn'[c].handler = loc[t].handler]_vars

\* enable with a handler returns on a connection it found Enabled with
\* another handler, which is still the one installed
C12_Witness ==
    \E t \in SMCallers :
        /\ pc[t] = "enable_ret"
        /\ EnableFound(t, GB_CONNECTION_STATE_ENABLED)
        /\ loc[t].handler # NULL
        /\ conn[loc[t].c].handler # NULL
        /\ conn[loc[t].c].handler # loc[t].handler
        /\ conn[loc[t].c].state = GB_CONNECTION_STATE_ENABLED

\* a thread is inside the cancel loop or the flush loop on connection c,
\* where connection->lock is released around the cancel of one operation
InLoopBody(c) ==
    \E t \in Threads :
        /\ loc[t].c = c
        /\ pc[t] \in {"cancel_call", "cancel_relock", "flush_call",
                      "flush_relock"}

\* C13 as stated: whenever connection->lock is free, a connection with a
\* handler is Enabled, also inside the cancel and flush loops of disable,
\* disable_rx and enable's rollback
C13_HandlerOnlyEnabled ==
    \A c \in Conns :
        (conn[c].lock = 0 /\ conn[c].handler # NULL) =>
            conn[c].state = GB_CONNECTION_STATE_ENABLED

\* C13 as amended: whenever connection->lock is free and no thread is
\* inside the body of a cancel or flush loop on the connection, a
\* connection with a handler is Enabled; so it is whenever
\* connection->mutex is free; inside those loop bodies the state is
\* already lowered and the handler is the one that was installed
C13_HandlerOutsideLoops ==
    \A c \in Conns :
        /\ (conn[c].lock = 0 /\ conn[c].handler # NULL /\ ~InLoopBody(c)) =>
              conn[c].state = GB_CONNECTION_STATE_ENABLED
        /\ (conn[c].mutex = 0 /\ conn[c].handler # NULL) =>
              conn[c].state = GB_CONNECTION_STATE_ENABLED

\* disable has set Disabled and released connection->lock around the
\* cancel of an operation, and the handler is still installed
C13_Witness ==
    \E t \in SMCallers :
        /\ loc[t].fn = "disable"
        /\ pc[t] = "cancel_call"
        /\ conn[loc[t].c].lock = 0
        /\ conn[loc[t].c].handler # NULL
        /\ conn[loc[t].c].state = GB_CONNECTION_STATE_DISABLED

\* thread t is inside enable, disable or disable_rx on connection c: past
\* mutex_lock(&connection->mutex) and not yet past mutex_unlock
InCall(t, c) ==
    /\ loc[t].c = c
    /\ loc[t].fn \in {"enable", "disable", "disable_rx"}
    /\ pc[t] \notin {"idle", "enable_ret", "disable_ret", "disable_rx_ret"}

\* C14: at most one thread at a time is inside enable, disable or
\* disable_rx on a connection, and it holds connection->mutex, also while
\* it is in a call to another layer or in a cancel loop; no call logs a
\* call to another layer while another thread is inside a call on the
\* same connection
C14_MutualExclusion ==
    /\ [](\A c \in Conns : \A t \in MxCallers :
            InCall(t, c) =>
                /\ conn[c].mutex = t
                /\ \A u \in MxCallers : InCall(u, c) => u = t)
    /\ [][\A t \in MxCallers :
            Len(loc'[t].log) > Len(loc[t].log) =>
                \A u \in MxCallers \ {t} : ~InCall(u, loc[t].c)]_vars

\* one caller is in the svc create step of enable on a connection on which
\* the other caller has finished a disable that cancelled an operation
C14_Witness ==
    \E t \in MxCallers, u \in MxCallers :
        /\ u # t
        /\ InCall(t, loc[t].c)
        /\ pc[t] = "en_svc_create"
        /\ loc[u].c = loc[t].c
        /\ pc[u] = "disable_ret"
        /\ loc[u].cancelled # <<>>

\* gb_connection_mutex and every connection->mutex
Mutexes == <<gb_connection_mutex, [c \in Conns |-> conn[c].mutex]>>

\* the spinlock the dispatcher's next step takes is free
DispatchLockFree(d) ==
    IF pc[d] = "idle" THEN gb_connections_lock = 0
    ELSE IF pc[d] = "rcvd_recv" THEN conn[loc[d].c].lock = 0
    ELSE TRUE

\* C15: the receive dispatcher never holds gb_connection_mutex or a
\* connection->mutex and no step of it takes or releases one; during the
\* lookup it holds gb_connections_lock and no other lock; and its next step
\* can be taken whenever the spinlock that step takes is free, whichever
\* mutexes other threads hold
C15_DispatchNoMutex ==
    /\ [](\A d \in Dispatchers :
            /\ gb_connection_mutex # d
            /\ \A c \in Conns : conn[c].mutex # d
            /\ pc[d] = "rcvd_find" =>
                  /\ gb_connections_lock = d
                  /\ \A c \in Conns : conn[c].lock # d
            /\ DispatchLockFree(d) => ENABLED DispatchStep(d))
    /\ [][\A d \in Dispatchers : Stepped(d) => Mutexes' = Mutexes]_vars

\* the dispatcher has delivered a message to a connection whose mutex the
\* caller of enable holds, waiting in the connected notification, while the
\* third thread holds gb_connection_mutex in a create
C15_Witness ==
    \E d \in Dispatchers, t \in Enablers :
        /\ pc[d] = "rcvd_put"
        /\ loc[d].log = <<"recv">>
        /\ conn[loc[d].c].mutex = t
        /\ pc[t] = "en_connected"
        /\ gb_connection_mutex # 0

\* the ids of the connections on the host device's list
LinkedIds == {conn[c].hd_cport_id : c \in Range(connections)}

\* a create call on its way out after a failed kzalloc or alloc_workqueue
AllocFailed(t) ==
    /\ pc[t] = "create_err_unlock"
    /\ loc[t].hd_cport_id >= 0

\* C16: a create that fails after it has reserved an id (kzalloc or
\* alloc_workqueue failed) has given the id back and freed the object when
\* it unlocks gb_connection_mutex, its connection was never on the host
\* device's list, and it returns NULL with the mutex released; a create
\* that finds no id leaves the allocator and the list as they are
C16_CreateFailsAtomically ==
    /\ [](\A t \in RegCallers :
            /\ pc[t] \in {"create_alloc", "create_wq", "create_link_lock",
                          "create_err_remove_ida"} =>
                  /\ gb_connection_mutex = t
                  /\ loc[t].c \notin Range(connections)
                  /\ loc[t].hd_cport_id \notin LinkedIds
            /\ pc[t] = "create_err_remove_ida" =>
                  /\ loc[t].c = NULL
                  /\ loc[t].hd_cport_id \in cport_id_map
            /\ AllocFailed(t) =>
                  /\ gb_connection_mutex = t
                  /\ loc[t].c = NULL
                  /\ loc[t].hd_cport_id \notin cport_id_map
                  /\ cport_id_map = LinkedIds)
    /\ [][\A t \in RegCallers :
            /\ (pc[t] = "create_err_unlock" /\ Stepped(t)) =>
                  /\ pc'[t] = "idle"
                  /\ gb_connection_mutex' = 0
                  /\ UNCHANGED <<connections, cport_id_map, handles, conn>>
            /\ (/\ pc[t] = "create_find"
                /\ pc'[t] = "create_err_unlock"
                /\ loc'[t].hd_cport_id < 0) =>
                  UNCHANGED <<connections, cport_id_map, handles, conn>>]_vars

\* a create is on its way out after a failed allocation, next to a
\* connection that is registered: the allocator holds that connection's
\* id only
C16_Witness ==
    \E t \in RegCallers :
        /\ AllocFailed(t)
        /\ connections # <<>>
        /\ cport_id_map = LinkedIds
        /\ loc[t].hd_cport_id \notin cport_id_map

\* the create call of t was given the id h to reserve
Requested(t, h) ==
    /\ loc[t].fn = "create_static"
    /\ loc[t].ida_start = h

\* the create call of t is to pick an id itself
AutoAssigned(t) == loc[t].fn \in {"create_control", "create_dynamic"}

\* t takes the step of create that reserves an id, the (interface, remote
\* id) pair being free
ReserveStep(t) ==
    /\ pc[t] = "create_find"
    /\ Stepped(t)
    /\ ~DuplicateCreate(t)

Unlinked(t) ==
    /\ loc[t].fn = "destroy"
    /\ pc[t] \in {"destroy_wq", "destroy_ida"}

\* a destroy call past ida_simple_remove
Released(t) ==
    /\ loc[t].fn = "destroy"
    /\ pc[t] \in {"destroy_unlock", "destroy_put"}

\* C18: gb_connection_destroy has unlinked the connection and released its
\* id when it returns: from list_del on gb_connection_hd_find finds no
\* connection for the id, the id is reserved until the connection is off
\* the list and its workqueue destroyed, and is then free in the allocator
\* before the mutex is released and the reference dropped; no lookup
\* returns the destroyed connection after that, whatever references remain
C18_DestroySynchronous ==
    /\ [](\A t \in SMCallers :
            LET c == loc[t].c
            IN  /\ (loc[t].fn = "destroy" /\ ~Released(t)) =>
                      /\ conn[c].hd_cport_id \in Ids
                      /\ conn[c].hd_cport_id \in cport_id_map
                /\ Unlinked(t) =>
                      /\ c \notin Linked
                      /\ hd_find_walk(conn[c].hd_cport_id) = NULL
                /\ (loc[t].fn = "destroy" /\ pc[t] = "destroy_ida") =>
                      ~conn[c].wq
                /\ Released(t) =>
                      /\ c \notin Linked
                      /\ conn[c].hd_cport_id = CPORT_ID_BAD
                      /\ ~conn[c].wq
                      /\ cport_id_map = LinkedIds
                      /\ \A id \in 0..NumCports : hd_find_walk(id) # c
                /\ pc[t] = "idle" =>
                      /\ cport_id_map = LinkedIds
                      /\ \A u \in Conns :
                            (conn[u].mem = "live" /\ u \notin Linked) =>
                                /\ conn[u].hd_cport_id = CPORT_ID_BAD
                                /\ \A id \in 0..NumCports :
                                      hd_find_walk(id) # u)
    /\ [][\A t \in SMCallers :
            (pc[t] = "destroy_ida" /\ Stepped(t)) =>
                LET c == loc[t].c
                    id == conn[c].hd_cport_id
                IN  /\ id \in cport_id_map
                    /\ id \notin cport_id_map'
                    /\ NoConnectionFor(id)']_vars

\* gb_connection_destroy has returned and a later create has reserved id 0
\* again, while the destroyed object is still alive, held by the dispatcher
C18_Witness ==
    \E t \in SMCallers, d \in Dispatchers, u \in Conns :
        /\ pc[t] = "create_alloc"
        /\ loc[t].hd_cport_id = 0
        /\ conn[u].mem = "live"
        /\ u \notin Linked
        /\ conn[u].hd_cport_id = CPORT_ID_BAD
        /\ HoldsRef(d, u)
        /\ loc[d].cport_id = 0

\* t takes the step of a cancel or flush loop that picks an operation
PickStep(t, check_pc, call_pc) ==
    /\ pc[t] = check_pc
    /\ pc'[t] = call_pc

\* the cancel loop picks the operation at the tail of the list
CancelFromTail ==
    \A t \in SMCallers :
        PickStep(t, "cancel_check", "cancel_call") =>
            LET ops == conn[loc[t].c].operations
            IN  loc'[t].op = ops[Len(ops)]

\* C19 as stated: both loops work from the tail: the cancel loop picks the
\* last operation of the list and the flush loop the last incoming one
C19_BothFromTail ==
    [][/\ CancelFromTail
       /\ \A t \in SMCallers :
            PickStep(t, "flush_check", "flush_call") =>
                LET inc == Incoming(conn[loc[t].c].operations)
                IN  loc'[t].op = inc[Len(inc)]]_vars

\* C19 as amended: at each iteration gb_connection_cancel_operations picks
\* the last operation of the list, the most recently added one, and
\* gb_connection_flush_incoming_operations the first incoming operation
\* from the head of the list, the least recently added one; the flush loop
\* leaves exactly when no incoming operation is on the list
C19_CancelOrder ==
    [][/\ CancelFromTail
       /\ \A t \in SMCallers :
            LET ops == conn[loc[t].c].operations
                inc == Incoming(ops)
            IN  /\ PickStep(t, "flush_check", "flush_call") =>
                      /\ inc # <<>>
                      /\ loc'[t].op = inc[1]
                      /\ \A i \in 1..Len(ops) :
                            (ops[i].incoming /\ ops[i] # loc'[t].op) =>
                                \E j \in 1..(i - 1) : ops[j] = loc'[t].op
                /\ PickStep(t, "flush_check", "rx_handler") => inc = <<>>]_vars

\* the flush loop has picked the older of two incoming operations, which is
\* not the one at the tail of the list
C19_Witness ==
    \E t \in SMCallers :
        LET ops == conn[loc[t].c].operations
        IN  /\ pc[t] = "flush_call"
            /\ Len(ops) = 2
            /\ ops[1].incoming
            /\ ops[2].incoming
            /\ loc[t].op = ops[1]
            /\ loc[t].op # ops[2]

\* the locks a thread holds
HoldsGlobalMutex(t) == gb_connection_mutex = t

HoldsConnMutex(t) == \E c \in Conns : conn[c].mutex = t

HoldsSpinlock(t) ==
    \/ gb_connections_lock = t
    \/ \E c \in Conns : conn[c].lock = t

\* the step of t takes a mutex
TakesMutex(t) ==
    \/ gb_connection_mutex' = t /\ gb_connection_mutex # t
    \/ \E c \in Conns : conn'[c].mutex = t /\ conn[c].mutex # t

\* t is inside a call, between its entry and its return
MidCall(t) ==
    pc[t] \notin {"idle", "create_ret", "rcvd_ret", "enable_ret",
                  "disable_ret", "disable_rx_ret"}

\* the steps of t in the specification of all locks
LockStep(t) ==
    \/ t \in Creators /\ DynStep(t)
    \/ t \in Enablers /\ SMStep(t)
    \/ t \in Dispatchers /\ DispatchStep(t)

\* t is at a spin_lock_irq(&gb_connections_lock)
WaitsRegistryLock(t) == pc[t] \in {"create_link_lock", "destroy_unlink_lock"}

\* t is at a point that takes connection->lock
WaitsConnLock(t) ==
    pc[t] \in {"en_tx_lock", "en_set_lock", "en_err_svc_lock", "rx_spin",
               "dis_spin", "cancel_call", "cancel_relock", "flush_call",
               "flush_relock", "rcvd_recv"}

\* the holder of the spinlock t is waiting for, or 0
WaitsFor(t) ==
    IF WaitsRegistryLock(t) THEN gb_connections_lock
    ELSE IF WaitsConnLock(t) THEN conn[loc[t].c].lock
    ELSE 0

\* no lock is left held by a thread that is outside a call, and a thread
\* inside a call can take its next step, or waits for a spinlock whose
\* holder is another thread that can take its next step
NoDeadlock ==
    /\ \A t \in Threads :
          (HoldsGlobalMutex(t) \/ HoldsConnMutex(t) \/ HoldsSpinlock(t)) =>
              MidCall(t)
    /\ \A t \in Threads :
          (pc[t] # "idle" /\ ~ENABLED LockStep(t)) =>
              /\ WaitsFor(t) \notin {0, t}
              /\ ENABLED LockStep(WaitsFor(t))

\* C20: no thread holds gb_connection_mutex and a connection->mutex at
\* once, a thread that takes either mutex holds no mutex and no spinlock,
\* a thread holds at most one spinlock, and with create, destroy, enable,
\* disable_rx, disable and the dispatcher running on two connections no
\* state is reached in which a thread inside a call can never go on
C20_LockOrder ==
    /\ [](/\ \A t \in Threads :
                /\ ~(HoldsGlobalMutex(t) /\ HoldsConnMutex(t))
                /\ ~(gb_connections_lock = t /\ \E c \in Conns : conn[c].lock = t)
          /\ NoDeadlock)
    /\ [][\A t \in Threads :
            TakesMutex(t) =>
                /\ ~HoldsGlobalMutex(t)
                /\ ~HoldsConnMutex(t)
                /\ ~HoldsSpinlock(t)]_vars

\* all three threads are inside a call: the dispatcher has found the
\* dynamic connection and waits for its spinlock, which the caller of
\* disable holds together with the connection's mutex, while the third
\* thread holds gb_connection_mutex in a create
C20_Witness ==
    \E t \in Creators, u \in Enablers, d \in Dispatchers :
        /\ HoldsGlobalMutex(t)
        /\ pc[d] = "rcvd_recv"
        /\ WaitsFor(d) = u
        /\ ~ENABLED LockStep(d)
        /\ loc[u].fn = "disable"
        /\ conn[loc[u].c].mutex = u
        /\ Len(connections) = 2

\* the step of t logs the call e to another layer
Calls(t, e) ==
    /\ Len(loc'[t].log) = Len(loc[t].log) + 1
    /\ loc'[t].log[Len(loc'[t].log)] = e

\* connection c, with no enable, disable or disable_rx inside a call on it,
\* is in step with the host driver and the svc: with a driver that has both
\* hooks its cport is enabled exactly if the state is not Disabled (with
\* cport_enable alone it is enabled if the state is not Disabled, without
\* cport_enable never), and its svc route exists exactly if it is not
\* static and the state is not Disabled
Balanced(c) ==
    LET id == conn[c].hd_cport_id
        up == conn[c].state # GB_CONNECTION_STATE_DISABLED
    IN  /\ (driver.cport_enable /\ driver.cport_disable) =>
              (id \in hd_enabled <=> up)
        /\ (driver.cport_enable /\ up) => id \in hd_enabled
        /\ ~driver.cport_enable => id \notin hd_enabled
        /\ id \in svc_routes <=> (up /\ ~gb_connection_is_static(c))

\* C21: whenever connection->mutex is free, the host driver's cport is
\* enabled exactly if the state is not Disabled (for the hooks the driver
\* has) and the svc route of a connection that is not static exists
\* exactly if the state is not Disabled, whatever calls have failed;
\* cport_enable is called only on a Disabled connection whose cport is not
\* enabled and cport_disable only on an enabled one, svc create only
\* without a route and svc destroy only with one
C21_LayersBalanced ==
    /\ [](\A c \in handles : conn[c].mutex = 0 => Balanced(c))
    /\ [][\A t \in SMCallers :
            LET c == loc[t].c
                id == conn[c].hd_cport_id
            IN  /\ Calls(t, "cport_enable") =>
                      /\ conn[c].state = GB_CONNECTION_STATE_DISABLED
                      /\ driver.cport_disable => id \notin hd_enabled
                      /\ id \in hd_enabled'
                /\ Calls(t, "cport_disable") =>
                      /\ driver.cport_enable => id \in hd_enabled
                      /\ id \notin hd_enabled'
                /\ Calls(t, "svc_create") =>
                      /\ id \notin svc_routes
                      /\ id \in svc_routes'
                /\ Calls(t, "svc_destroy") =>
                      /\ id \in svc_routes
                      /\ id \notin svc_routes']_vars

\* disable_rx has returned on a dynamic connection that an enable had made
\* Enabled, over a driver with both hooks: the state is Enabled-Tx, the
\* cport is enabled and the route exists
C21_Witness ==
    \E t \in SMCallers :
        LET c == loc[t].c
        IN  /\ pc[t] = "disable_rx_ret"
            /\ conn[c].mutex = 0
            /\ conn[c].state = GB_CONNECTION_STATE_ENABLED_TX
            /\ driver.cport_enable
            /\ driver.cport_disable
            /\ ~gb_connection_is_static(c)
            /\ conn[c].hd_cport_id \in hd_enabled
            /\ conn[c].hd_cport_id \in svc_routes

CancelPcs == {"cancel_check", "cancel_call", "cancel_relock"}

FlushPcs == {"flush_check", "flush_call", "flush_relock"}

\* an operation leaves connection->operations, while t is in one of the
\* two loops, only by a cancel request of t or by its own completion in
\* the operation layer
LeavesAccounted(t) ==
    LET c == loc[t].c
    IN  pc[t] \in CancelPcs \cup FlushPcs =>
            \A op \in Range(conn[c].operations) \ Range(conn'[c].operations) :
                \/ loc'[t].cancelled = Append(loc[t].cancelled, op)
                \/ UNCHANGED <<pc, loc>>

\* C22: the loops of gb_connection_cancel_operations and
\* gb_connection_flush_incoming_operations are left, with operations
\* completing on their own during the scan; when they are left no operation
\* (no incoming operation) is in the set, each having left it by a cancel
\* request or by its own completion; gb_connection_disable and
\* gb_connection_disable_rx return, with connection->mutex and
\* connection->lock released
C22_CancelAndDrainTerminate ==
    /\ \A t \in SMCallers :
        /\ (pc[t] \in CancelPcs) ~> (pc[t] \in {"en_err_handler",
                                                "dis_handler"})
        /\ (pc[t] \in FlushPcs) ~> (pc[t] = "rx_handler")
        /\ (loc[t].fn \in {"disable", "disable_rx"}) ~>
               /\ pc[t] \in {"disable_ret", "disable_rx_ret"}
               /\ conn[loc[t].c].mutex = 0
               /\ conn[loc[t].c].lock = 0
    /\ [](\A t \in SMCallers :
            /\ pc[t] \in {"en_err_handler", "dis_handler"} =>
                   conn[loc[t].c].operations = <<>>
            /\ pc[t] = "rx_handler" =>
                   Incoming(conn[loc[t].c].operations) = <<>>)
    /\ [][\A t \in SMCallers : LeavesAccounted(t)]_vars

\* gb_connection_disable has returned after two passes of the cancel loop,
\* with the set empty and both locks of the connection free
C22_Witness ==
    \E t \in SMCallers :
        LET c == loc[t].c
        IN  /\ pc[t] = "disable_ret"
            /\ Len(loc[t].cancelled) >= 2
            /\ conn[c].operations = <<>>
            /\ conn[c].mutex = 0
            /\ conn[c].lock = 0
====
